---- MODULE Spec2Model ----
(***************************************************************************)
(* Model of the WarehouseMeals extension's background service worker       *)
(* (src/background.js): the sync run (syncReceipts), the content-script    *)
(* channel (contentPorts, messageContentScript), the authenticated client  *)
(* (authenticatedFetch) and the stored token.                              *)
(*                                                                         *)
(* JavaScript runs one task at a time, so every action below is the code   *)
(* between two suspension points (await) of one caller, or one event of    *)
(* the environment (the costco.com tab, its ports, the content script, the *)
(* WarehouseMeals server, the user).                                       *)
(***************************************************************************)
EXTENDS Integers, Sequences, FiniteSets, TLC

\* The longest receipt list the content script returns.
MaxReceipts == 3

\* The longest receipt list of a run that status calls run beside.
StatusMaxReceipts == 2

\* The popup messages that may be handled concurrently (each is one call of
\* the onMessage handler with action 'syncReceipts').
Callers == {"c1", "c2"}

\* The popup messages with action 'getStatus' that may be handled concurrently
\* with them.
StatusCallers == {"s1"}

\* The messages the content script (src/content/costco.js) may be handling at
\* one time, each one call of its onMessage listener.
ScriptCalls == {"m1", "m2"}

\* The popup page (src/popup/popup.js), which listens for progress messages
\* while it is open.
Observers == {"popup"}

\* Every invocation of a handler, and the popup, has a position, locals and
\* an answer.
Handlers == Callers \cup StatusCallers \cup ScriptCalls \cup Observers

\* The port objects the costco.com tab may be connected with at one time.
Ports == {"p1"}

NoPort == "none"
NoToken == "none"

VARIABLES
    syncState,      \* background.js:34  {inProgress, progress}
    token,          \* chrome.storage.local warehouseMealsToken
    tabOpen,        \* whether chrome.tabs.query finds a costco.com tab
    livePorts,      \* the port objects that are still connected
    contentPorts,   \* background.js:269  the registry entry of the tab
    pending,        \* listeners registered by messageContentScript
    pc,             \* each handler invocation's position
    run,            \* each handler invocation's locals
    result,         \* what the handler hands to sendResponse
    events          \* what the current run did, in order (history)

vars == <<syncState, token, tabOpen, livePorts, contentPorts, pending,
          pc, run, result, events>>

----------------------------------------------------------------------------
\* Values

\* syncState.progress = null, and the null progress message.
NullProgress == [phase |-> "null", current |-> 0, total |-> 0]

ListingProgress == [phase |-> "listing", current |-> 0, total |-> 0]

\* A progress message that counts the records from 0, as the loop does.
FetchingProgressFromZero(cur, tot) ==
    [phase |-> "fetching", current |-> cur - 1, total |-> tot]

\* Lines 412-417.
FetchingProgress(cur, tot) == [phase |-> "fetching", current |-> cur, total |-> tot]

ImportingProgress == [phase |-> "importing", current |-> 0, total |-> 0]

\* The transactionBarcode of the i-th record of a listing of n records.
Barcode(i, n) == 10 * (n - i + 1)

\* The lists the content script may answer fetchCostcoReceipts with.
Listings == { [i \in 1..n |-> Barcode(i, n)] : n \in 0..MaxReceipts }

\* The fields filterReceiptData copies.
TopFields == {"transactionBarcode", "transactionDateTime", "warehouseName",
              "warehouseNumber", "subTotal", "taxes", "total",
              "instantSavings", "totalItemCount", "itemArray"}

ItemFields == {"itemNumber", "itemDescription01", "itemDescription02",
               "amount", "unit", "itemUnitPriceAmount"}

\* The details the content script may answer fetchCostcoReceiptDetails with:
\* one with undocumented fields at both levels and, for the oldest record,
\* one without an itemArray.
NoisyDetail(b) ==
    [transactionBarcode |-> b, total |-> "t", internalNotes |-> "n",
     membershipNumber |-> "m",
     itemArray |-> << [itemNumber |-> "i1", amount |-> "a", taxFlag |-> "y"],
                      [itemNumber |-> "i2", itemDepartmentNumber |-> "d"] >>]

BareDetail(b) == [transactionBarcode |-> b, warehouseName |-> "w"]

Details(b) == IF b = Barcode(1, 1) THEN {BareDetail(b)} ELSE {NoisyDetail(b)}

\* A function restricted to the keys in S.
Restrict(f, S) == [k \in (DOMAIN f) \cap S |-> f[k]]

\* A line item that is passed on as it came.
FilterItemKeepsAll(item) == item

\* Lines 75-82.
FilterItem(item) == Restrict(item, ItemFields)

\* filterReceiptData followed by JSON.stringify (line 357), which drops the
\* keys whose value is undefined: the record as it is submitted.
filterReceiptData(receipt) ==
    LET items == IF "itemArray" \in DOMAIN receipt THEN receipt.itemArray ELSE << >>
        top == Restrict(receipt, TopFields \ {"itemArray"})
    IN  [k \in (DOMAIN top) \cup {"itemArray"} |->
            IF k = "itemArray"
            THEN [j \in 1..Len(items) |-> FilterItem(items[j])]
            ELSE top[k]]

NoResult == [kind |-> "none"]

\* A thrown Error, as the handler's catch turns it into {error: message}.
Failure(e) == [kind |-> "error", error |-> e]

\* delay(1000) of the fetch loop (line 433) and of the 401 backoff (line 210).
RateLimitMs == 1000

BackoffMs == 1000

\* A caller's locals before it has entered syncReceipts.
NoRun == [receipts |-> << >>, i |-> 0, detailedReceipts |-> << >>,
          failedReceipts |-> << >>, filteredReceipts |-> << >>,
          bearer |-> NoToken]

----------------------------------------------------------------------------
Init ==
    /\ syncState = [inProgress |-> FALSE, progress |-> NullProgress]
    /\ token \in {NoToken, "tok"}
    /\ tabOpen = FALSE
    /\ livePorts = {}
    /\ contentPorts = NoPort
    /\ pending = {}
    /\ pc = [t \in Handlers |-> "idle"]
    /\ run = [t \in Handlers |-> NoRun]
    /\ result = [t \in Handlers |-> NoResult]
    /\ events = << >>

----------------------------------------------------------------------------
\* The run's view of the worker while one task executes: syncState and the
\* history of what the run did.  m = [ss |-> syncState, ev |-> events]

Logged(m, e) == [m EXCEPT !.ev = Append(m.ev, e)]

\* Whether a popup is there to receive a message of the worker.
Observed == pc["popup"] = "open"

\* A broadcast that keeps the progress only when somebody received it.
DeliveryRejectedResets(m) == [m EXCEPT !.ss.progress = NullProgress]

\* Lines 55-57: sendMessage found no receiver and rejected; the catch drops
\* the rejection.
DeliveryRejected(m) == m

\* Lines 53-58, with observed whether sendMessage finds a receiver.
Broadcast(m, progress, observed) ==
    LET sent == Logged([m EXCEPT !.ss.progress = progress],
                       [kind |-> "publish", progress |-> progress])
    IN  IF observed
        THEN Logged(sent, [kind |-> "deliver", progress |-> progress])
        ELSE DeliveryRejected(sent)

\* broadcastProgress: sets syncState.progress and sends the message.
broadcastProgress(m, progress) == Broadcast(m, progress, Observed)

\* A run that leaves without its finally block.
SyncFinallySkipped(m) == m

\* The finally block of syncReceipts.
SyncFinally(m) ==
    broadcastProgress(
        [m EXCEPT !.ss = [inProgress |-> FALSE, progress |-> NullProgress]],
        NullProgress)

\* A guard that lets every call through.
GuardMissing == FALSE

\* The guard of syncReceipts.
AlreadyInProgress == syncState.inProgress

\* A run that takes the lock and suspends before it has published anything.
SyncEnterUnpublished ==
    Logged([ss |-> [inProgress |-> TRUE, progress |-> NullProgress], ev |-> << >>],
           [kind |-> "call", action |-> "fetchCostcoReceipts"])

\* Lines 394-400: take the lock, publish the listing phase, call
\* fetchCostcoReceipts.  The history starts afresh with every run.
SyncEnter ==
    Logged(
        broadcastProgress(
            [ss |-> [inProgress |-> TRUE, progress |-> NullProgress], ev |-> << >>],
            ListingProgress),
        [kind |-> "call", action |-> "fetchCostcoReceipts"])

\* Line 411: the record of this iteration (r.i counts from 1).
CurrentBarcode(r) == r.receipts[r.i]

\* The head of the fetch loop for record r.i: lines 411-420.
LoopHead(m, r) ==
    Logged(
        broadcastProgress(m, FetchingProgress(r.i, Len(r.receipts))),
        [kind |-> "call", action |-> "fetchCostcoReceiptDetails",
         index |-> r.i, barcode |-> CurrentBarcode(r)])

\* A results list that grows at the front.
PushDetailFront(r, details) ==
    [r EXCEPT !.detailedReceipts = <<details>> \o @]

\* Lines 422-428: the fetch of record r.i succeeded with details, or failed.
PushDetail(r, details) ==
    [r EXCEPT !.detailedReceipts = Append(@, details)]

PushFailed(r) ==
    [r EXCEPT !.failedReceipts = Append(@, CurrentBarcode(r))]

\* An empty list that is not returned early.
NoReceiptsUnchecked(receipts) == FALSE

\* Line 402.
NoReceipts(receipts) == Len(receipts) = 0

\* Line 403.
NoReceiptsResult == [kind |-> "empty", success |-> TRUE, count |-> 0]

\* A delay after every fetch, the last one too.
MoreToFetchAlways(r) == TRUE

\* Line 432: whether a rate-limit delay follows the fetch of record r.i.
MoreToFetch(r) == r.i < Len(r.receipts)

\* A run that goes on to the import with nothing fetched.
AllFailedIgnored(r) == FALSE

\* Line 438: every fetch failed.
AllFailed(r) == Len(r.detailedReceipts) = 0 /\ Len(r.failedReceipts) > 0

\* Lines 439-442.
AllFailedError(r) ==
    [kind |-> "error", error |-> "AllFetchesFailed", count |-> Len(r.failedReceipts)]

\* Line 447.
FilterAll(r) ==
    [r EXCEPT !.filteredReceipts =
        [j \in 1..Len(r.detailedReceipts) |-> filterReceiptData(r.detailedReceipts[j])]]

----------------------------------------------------------------------------
\* How a task leaves the code between two suspension points.

Here == [ss |-> syncState, ev |-> events]

\* A handler's answer is handed to sendResponse in a microtask of the task
\* that settled it: no other task runs in between.
Answering == \E t \in Callers \cup StatusCallers : pc[t] = "done"

\* The run of t ends with res (a return value or a thrown error): the
\* finally block runs, then the handler's promise settles.
Exit(t, m, res) ==
    LET f == Logged(SyncFinally(m), [kind |-> "return", caller |-> t, result |-> res])
    IN  /\ syncState' = f.ss
        /\ events' = f.ev
        /\ pc' = [pc EXCEPT ![t] = "done"]
        /\ run' = [run EXCEPT ![t] = NoRun]
        /\ result' = [result EXCEPT ![t] = res]

\* The run of t suspends at `at` with locals r.
Suspend(t, m, r, at) ==
    /\ syncState' = m.ss
    /\ events' = m.ev
    /\ pc' = [pc EXCEPT ![t] = at]
    /\ run' = [run EXCEPT ![t] = r]
    /\ UNCHANGED result

\* An orchestrator that looks for the token itself before it imports.
PostLoopChecksToken(t, m, r) ==
    IF AllFailed(r) THEN Exit(t, m, AllFailedError(r))
    ELSE IF token = NoToken THEN Exit(t, m, Failure("NotAuthenticated"))
    ELSE LET r2 == FilterAll(r)
         IN  Suspend(t,
                 Logged(broadcastProgress(m, ImportingProgress),
                        [kind |-> "import", receipts |-> r2.filteredReceipts]),
                 r2, "imp_storage")

\* Lines 437-448: after the loop.
PostLoop(t, m, r) ==
    IF AllFailed(r)
    THEN Exit(t, m, AllFailedError(r))
    ELSE LET r2 == FilterAll(r)
         IN  Suspend(t,
                 Logged(broadcastProgress(m, ImportingProgress),
                        [kind |-> "import", receipts |-> r2.filteredReceipts]),
                 r2, "imp_storage")

\* A loop that fetches the first record only.
LoopTestFirstOnly(t, m, r) ==
    IF r.i <= Len(r.receipts) /\ r.i <= 1
    THEN Suspend(t, LoopHead(m, r), r, "det_tab")
    ELSE PostLoop(t, m, r)

\* Line 410: the loop test, with r.i the record to fetch next.
LoopTest(t, m, r) ==
    IF r.i <= Len(r.receipts)
    THEN Suspend(t, LoopHead(m, r), r, "det_tab")
    ELSE PostLoop(t, m, r)

NextRecord(r) == [r EXCEPT !.i = @ + 1]

\* Lines 431-435: the end of an iteration.
AfterFetch(t, m, r) ==
    IF MoreToFetch(r)
    THEN Suspend(t, Logged(m, [kind |-> "delay", ms |-> RateLimitMs]), r, "delay")
    ELSE LoopTest(t, m, NextRecord(r))

Settled(m, r, outcome) ==
    Logged(m, [kind |-> "settle", index |-> r.i, barcode |-> CurrentBarcode(r),
               outcome |-> outcome])

\* A failed fetch that is raised instead of collected.
OnFetchFailedRaised(t, m, r, outcome) ==
    Exit(t, Settled(m, r, outcome), Failure("Remote"))

\* Lines 423-429: the fetch yielded null, or threw and the catch block ran.
OnFetchFailed(t, m, r, outcome) ==
    AfterFetch(t, Settled(m, r, outcome), PushFailed(r))

\* Lines 421-422: the fetch yielded details.
OnFetchDetails(t, m, r, d) ==
    AfterFetch(t,
        Logged(m, [kind |-> "settle", index |-> r.i, barcode |-> CurrentBarcode(r),
                   outcome |-> "detail", details |-> d]),
        PushDetail(r, d))

----------------------------------------------------------------------------
\* messageContentScript

\* A correlation id no pending call uses (Math.random().toString(36)).
FreshId == CHOOSE n \in 1..(Cardinality(pending) + 1) : \A e \in pending : e.id # n

\* A channel that reports a missing connection as a missing tab.
ChannelErrorUndistinguished ==
    IF ~tabOpen \/ contentPorts = NoPort THEN "ChannelUnavailable" ELSE "none"

\* Lines 285-294: what the call does once chrome.tabs.query has answered.
ChannelError ==
    IF ~tabOpen THEN "ChannelUnavailable"
    ELSE IF contentPorts = NoPort THEN "ChannelNotConnected"
    ELSE "none"

\* Lines 296-311: register the listener and post the message.
Post(t) == pending' = pending \cup {[caller |-> t, port |-> contentPorts, id |-> FreshId]}

SendEvent(action, index, barcode) ==
    [kind |-> "send", action |-> action, index |-> index, barcode |-> barcode]

\* The listeners of a port object that has disconnected stay registered on
\* it; no message arrives on it any more.
DeadPort == "dead"

Orphaned(ports) ==
    { IF e.port \in ports THEN [e EXCEPT !.port = DeadPort] ELSE e : e \in pending }

\* The pending calls of t a message of the content script can still settle.
Answerable(t) == {e \in pending : e.caller = t /\ e.port \in livePorts}

\* The result field of an answer: null, or a value.
Null == [isNull |-> TRUE]

Value(v) == [isNull |-> FALSE, value |-> v]

\* The answers a port carries: {id, result} or {id, error}.
ResultMessage(id, v) == [id |-> id, result |-> v]

ErrorMessage(id, err) == [id |-> id, error |-> err]

\* The ids of the requests posted on port p that are yet to be answered.
Outstanding(p) == {e.id : e \in {x \in pending : x.port = p}}

\* The messages that may arrive on port p, with results drawn from values.
Replies(p, values) ==
    {ErrorMessage(n, "Remote") : n \in Outstanding(p)}
        \cup {ResultMessage(n, v) : n \in Outstanding(p), v \in values}

\* A listener that settles its call with whatever arrives on the port.
ListenerAnyId(e, response) ==
    IF "error" \in DOMAIN response
    THEN [kind |-> "reject", error |-> response.error]
    ELSE [kind |-> "resolve", value |-> response.result]

\* Lines 299-307: what the listener of the pending call e does with a
\* message of its port.
Listener(e, response) ==
    IF response.id # e.id THEN [kind |-> "pending"]
    ELSE IF "error" \in DOMAIN response
         THEN [kind |-> "reject", error |-> response.error]
         ELSE [kind |-> "resolve", value |-> response.result]

\* The message that settled the call e, as the history keeps it: whether its
\* id is the one generated for the call, and what it carries.
MessageEvent(e, response) ==
    [kind |-> "message", caller |-> e.caller, matches |-> (response.id = e.id),
     carries |-> Restrict(response, {"result", "error"})]

Received(e, response) == Logged([ss |-> syncState, ev |-> events], MessageEvent(e, response))

----------------------------------------------------------------------------
\* The 'syncReceipts' message: syncReceipts(startDate, endDate)

Start(t) ==
    /\ ~Answering
    /\ pc[t] = "idle"
    /\ IF AlreadyInProgress
       THEN /\ pc' = [pc EXCEPT ![t] = "done"]
            /\ result' = [result EXCEPT ![t] = Failure("AlreadyInProgress")]
            /\ UNCHANGED <<syncState, events, run>>
       ELSE Suspend(t, SyncEnter, NoRun, "list_tab")
    /\ UNCHANGED <<token, tabOpen, livePorts, contentPorts, pending>>

\* Lines 539-541: sendResponse.  The history of a call is kept until its
\* answer has been handed over.
Respond(t) ==
    /\ pc[t] = "done"
    /\ pc' = [pc EXCEPT ![t] = "idle"]
    /\ result' = [result EXCEPT ![t] = NoResult]
    /\ run' = [run EXCEPT ![t] = NoRun]
    /\ events' = IF events # << >> /\ events[Len(events)].kind = "return"
                 THEN << >> ELSE events
    /\ UNCHANGED <<syncState, token, tabOpen, livePorts, contentPorts, pending>>

\* fetchCostcoReceipts: chrome.tabs.query has answered.
ListSend(t) ==
    /\ ~Answering
    /\ pc[t] = "list_tab"
    /\ IF ChannelError # "none"
       THEN /\ Exit(t, Here, Failure(ChannelError))
            /\ UNCHANGED pending
       ELSE /\ Post(t)
            /\ Suspend(t, Logged(Here, SendEvent("fetchCostcoReceipts", 0, 0)),
                       run[t], "list_wait")
    /\ UNCHANGED <<token, tabOpen, livePorts, contentPorts>>

Listed(m, outcome, receipts) ==
    Logged(m, [kind |-> "listed", outcome |-> outcome, receipts |-> receipts])

\* What the content script may answer fetchCostcoReceipts with.
ListValues == {Null} \cup {Value(receipts) : receipts \in Listings}

\* Lines 400-410: the listing call has settled with s.
OnListed(t, m, s) ==
    IF s.kind = "reject" THEN Exit(t, Listed(m, "error", << >>), Failure(s.error))
    ELSE IF s.value.isNull THEN Exit(t, Listed(m, "null", << >>), NoReceiptsResult)
    ELSE LET receipts == s.value.value
         IN  IF NoReceipts(receipts)
             THEN Exit(t, Listed(m, "list", receipts), NoReceiptsResult)
             ELSE LoopTest(t, Listed(m, "list", receipts),
                           [run[t] EXCEPT !.receipts = receipts, !.i = 1])

\* A message arrives on the port of the listing call: an error, or a result
\* drawn from values.
ListReplyOf(t, values) ==
    /\ ~Answering
    /\ pc[t] = "list_wait"
    /\ \E e \in Answerable(t) :
        \E response \in Replies(e.port, values) :
            LET s == Listener(e, response)
            IN  /\ s.kind # "pending"
                /\ pending' = pending \ {e}
                /\ OnListed(t, Received(e, response), s)
    /\ UNCHANGED <<token, tabOpen, livePorts, contentPorts>>

ListReply(t) == ListReplyOf(t, ListValues)

\* A loop that does not await the fetch it has sent.
DetailsNotAwaited == "delay"

\* Line 420: the loop awaits the answer of the fetch it has sent.
AwaitDetails == "det_wait"

\* fetchCostcoReceiptDetails: chrome.tabs.query has answered.
DetailSend(t) ==
    /\ ~Answering
    /\ pc[t] = "det_tab"
    /\ IF ChannelError # "none"
       THEN /\ OnFetchFailed(t, Here, run[t], "rejected")
            /\ UNCHANGED pending
       ELSE /\ Post(t)
            /\ Suspend(t, Logged(Here, SendEvent("fetchCostcoReceiptDetails",
                                                 run[t].i, CurrentBarcode(run[t]))),
                       run[t], AwaitDetails)
    /\ UNCHANGED <<token, tabOpen, livePorts, contentPorts>>

\* What the content script may answer fetchCostcoReceiptDetails(b) with.
DetailValues(b) == {Null} \cup {Value(d) : d \in Details(b)}

\* Lines 420-429: the detail call has settled with s.
OnDetail(t, m, r, s) ==
    IF s.kind = "reject" THEN OnFetchFailed(t, m, r, "rejected")
    ELSE IF s.value.isNull THEN OnFetchFailed(t, m, r, "null")
    ELSE OnFetchDetails(t, m, r, s.value.value)

\* A message arrives on the port of a detail call: an error, null, or a
\* detail.
DetailReply(t) ==
    /\ ~Answering
    /\ pc[t] = "det_wait"
    /\ \E e \in Answerable(t) :
        \E response \in Replies(e.port, DetailValues(CurrentBarcode(run[t]))) :
            LET s == Listener(e, response)
            IN  /\ s.kind # "pending"
                /\ pending' = pending \ {e}
                /\ OnDetail(t, Received(e, response), run[t], s)
    /\ UNCHANGED <<token, tabOpen, livePorts, contentPorts>>

\* The rate-limit delay is over: the next iteration of the loop.
DelayDone(t) ==
    /\ ~Answering
    /\ pc[t] = "delay"
    /\ LoopTest(t, Here, NextRecord(run[t]))
    /\ UNCHANGED <<token, tabOpen, livePorts, contentPorts, pending>>

----------------------------------------------------------------------------
\* sendReceiptsToWarehouseMeals and authenticatedFetch

\* What the import endpoint may answer.  ctJson: the content-type header
\* includes application/json; parses: response.json() succeeds; body: the
\* parsed JSON object.  A text is the sequence of its parts, so that what a
\* text starts with can be told.
OkBodies ==
    { [message |-> <<"ok">>],
      [message |-> <<"ok">>, imported |-> 1, duplicates |-> 1, skipped |-> 1,
       errors |-> [isArray |-> FALSE, count |-> 2]],
      [message |-> <<"ok">>, imported |-> 0,
       errors |-> [isArray |-> TRUE, items |-> <<"e1", "e2", "e3">>]] }

\* The server words its messages as it likes.
ErrorBodies ==
    { [message |-> <<"The receipts field is required.">>],
      [message |-> <<"Validation failed:", "quota exceeded">>],
      [message |-> <<"Server error:", "maintenance">>],
      [error |-> "x"] }

Responses ==
    { [status |-> 200, ctJson |-> TRUE, parses |-> TRUE, body |-> b] : b \in OkBodies }
    \cup { [status |-> 200, ctJson |-> FALSE, parses |-> FALSE, body |-> [error |-> "x"]] }
    \cup { [status |-> st, ctJson |-> TRUE, parses |-> TRUE, body |-> b] :
             st \in {422, 500}, b \in ErrorBodies }
    \cup { [status |-> st, ctJson |-> cj, parses |-> FALSE, body |-> [error |-> "x"]] :
             st \in {422, 500}, cj \in BOOLEAN }
    \cup { [status |-> 401, ctJson |-> TRUE, parses |-> TRUE,
            body |-> [message |-> <<"Unauthenticated.">>]] }

\* response.ok
Ok(resp) == resp.status >= 200 /\ resp.status <= 299

\* text.startsWith(prefix)
StartsWith(text, prefix) == text # << >> /\ text[1] = prefix

\* `Validation failed: ${json.message}`
ValidationMessage(message) == <<"Validation failed:">> \o message

\* `Server error: ${response.status}`
ServerErrorMessage(status) == <<"Server error:", ToString(status)>>

\* json.message is there and not empty.
HasMessage(body) == "message" \in DOMAIN body /\ body.message # << >>

\* Lines 366-369: the error thrown inside the try block once the body has
\* been parsed.
ParsedError(resp) ==
    IF resp.status = 422 /\ HasMessage(resp.body)
    THEN ValidationMessage(resp.body.message)
    ELSE IF HasMessage(resp.body) THEN resp.body.message
    ELSE ServerErrorMessage(resp.status)

\* Line 371: the errors the catch block throws again.
Rethrown(text) ==
    StartsWith(text, "Validation failed:") \/ StartsWith(text, "Server error:")

\* Lines 360-377: the message of the error a non-2xx import response is
\* turned into.  The SyntaxError of a body that does not parse is dropped by
\* the catch block.
ImportErrorMessage(resp) ==
    IF resp.ctJson /\ resp.parses /\ Rethrown(ParsedError(resp))
    THEN ParsedError(resp)
    ELSE ServerErrorMessage(resp.status)

\* The thrown Error carries its message alone; its class is what the
\* message starts with.
ImportError(resp) ==
    LET text == ImportErrorMessage(resp)
    IN  [kind |-> "error",
         error |-> IF StartsWith(text, "Validation failed:")
                   THEN "ValidationFailed" ELSE "ServerError",
         message |-> text]

\* x ?? d for the key k of a parsed body.
OrElse(body, k, d) == IF k \in DOMAIN body THEN body[k] ELSE d

\* A result that counts the errors only when they arrive as a number.
ErrorsCountNumberOnly(body) ==
    IF "errors" \in DOMAIN body /\ ~body.errors.isArray THEN body.errors.count ELSE 0

\* Line 455: Array.isArray(result.errors) ? result.errors.length
\*                                        : (result.errors ?? 0)
ErrorsCount(body) ==
    IF "errors" \in DOMAIN body
    THEN IF body.errors.isArray THEN Len(body.errors.items)
         ELSE body.errors.count
    ELSE 0

\* Lines 451-458.
SyncResult(body, r) ==
    [kind |-> "result", success |-> TRUE,
     imported |-> OrElse(body, "imported", Len(r.detailedReceipts)),
     duplicates |-> OrElse(body, "duplicates", 0),
     skipped |-> OrElse(body, "skipped", 0),
     errors |-> ErrorsCount(body),
     fetchFailed |-> Len(r.failedReceipts)]

\* Lines 360-380 and 450-458: what the run ends with once authenticatedFetch
\* has returned resp.  Reading the body is folded into this step.
ImportOutcome(resp, r) ==
    IF ~Ok(resp) THEN ImportError(resp)
    ELSE IF ~resp.parses THEN Failure("ParseError")
    ELSE SyncResult(resp.body, r)

HttpEvent(r, n) ==
    [kind |-> "http", attempt |-> n, bearer |-> r.bearer, receipts |-> r.filteredReceipts]

\* What fetch settled with: a response, or a rejection.
ResponseEvent(n, resp) == [kind |-> "response", attempt |-> n, response |-> resp]

NetworkErrorEvent(n) == [kind |-> "neterror", attempt |-> n]

BackoffEvent == [kind |-> "backoff", ms |-> BackoffMs]

RemoveEvent == [kind |-> "remove"]

\* A client that sends the request whatever the storage holds.
NotAuthenticatedUnchecked(stored) == FALSE

\* Lines 186-188.
NotAuthenticated(stored) == stored = NoToken

\* A client that retries every failed request.
RetryOnAnyError(resp) == resp.status >= 400

\* Line 208.
RetryNeeded(resp) == resp.status = 401

\* A client that takes every failed retry as proof of an invalid token.
ExpiredOnAnyError(resp) == resp.status >= 400

\* Line 218.
Expired(resp) == resp.status = 401

\* A client that takes a transport failure as proof of an invalid token.
ClearedAfterNetworkError(stored) == NoToken

\* Lines 203-205 and 214-216: the catch blocks throw NetworkError and leave
\* the storage alone.
StoredAfterNetworkError(stored) == stored

\* Lines 184-202: getStorage has answered; no token throws, else the first
\* fetch is sent.
ImportStorage(t) ==
    /\ ~Answering
    /\ pc[t] = "imp_storage"
    /\ IF NotAuthenticated(token)
       THEN Exit(t, Here, Failure("NotAuthenticated"))
       ELSE LET r == [run[t] EXCEPT !.bearer = token]
            IN  Suspend(t, Logged(Here, HttpEvent(r, 1)), r, "imp_fetch1")
    /\ UNCHANGED <<token, tabOpen, livePorts, contentPorts, pending>>

\* Lines 203-210 and 225: the first fetch rejects, answers 401, or answers.
ImportResponse1(t) ==
    /\ ~Answering
    /\ pc[t] = "imp_fetch1"
    /\ \/ /\ Exit(t, Logged(Here, NetworkErrorEvent(1)), Failure("NetworkError"))
          /\ token' = StoredAfterNetworkError(token)
       \/ \E resp \in Responses :
            /\ IF RetryNeeded(resp)
               THEN Suspend(t, Logged(Logged(Here, ResponseEvent(1, resp)), BackoffEvent),
                            run[t], "imp_backoff")
               ELSE Exit(t, Logged(Here, ResponseEvent(1, resp)),
                         ImportOutcome(resp, run[t]))
            /\ UNCHANGED token
    /\ UNCHANGED <<tabOpen, livePorts, contentPorts, pending>>

\* Line 213: the backoff is over, the retry is sent.
ImportRetry(t) ==
    /\ ~Answering
    /\ pc[t] = "imp_backoff"
    /\ Suspend(t, Logged(Here, HttpEvent(run[t], 2)), run[t], "imp_fetch2")
    /\ UNCHANGED <<token, tabOpen, livePorts, contentPorts, pending>>

\* Lines 214-225: the retry rejects, answers 401 again (the token is
\* removed), or answers.
ImportResponse2(t) ==
    /\ ~Answering
    /\ pc[t] = "imp_fetch2"
    /\ \/ /\ Exit(t, Logged(Here, NetworkErrorEvent(2)), Failure("NetworkError"))
          /\ token' = StoredAfterNetworkError(token)
       \/ \E resp \in Responses :
            IF Expired(resp)
            THEN /\ token' = NoToken
                 /\ Suspend(t, Logged(Logged(Here, ResponseEvent(2, resp)), RemoveEvent),
                            run[t], "imp_remove")
            ELSE /\ Exit(t, Logged(Here, ResponseEvent(2, resp)),
                         ImportOutcome(resp, run[t]))
                 /\ UNCHANGED token
    /\ UNCHANGED <<tabOpen, livePorts, contentPorts, pending>>

\* Line 221: chrome.storage.local.remove has answered.
ImportExpired(t) ==
    /\ ~Answering
    /\ pc[t] = "imp_remove"
    /\ Exit(t, Here, Failure("SessionExpired"))
    /\ UNCHANGED <<token, tabOpen, livePorts, contentPorts, pending>>

----------------------------------------------------------------------------
\* The 'getStatus' message (lines 482-517), isCostcoLoggedIn and validateToken

\* A status call's locals; log is what the call did, in order (history).
NoStatus == [tokenSeen |-> NoToken, hasTab |-> FALSE, loggedIn |-> FALSE,
             bearer |-> NoToken, log |-> << >>]

Noted(r, e) == [r EXCEPT !.log = Append(@, e)]

\* The status call of t suspends at `at` with locals r.
StatusSuspend(t, r, at) ==
    /\ pc' = [pc EXCEPT ![t] = at]
    /\ run' = [run EXCEPT ![t] = r]
    /\ UNCHANGED <<syncState, events, result>>

\* The status call of t returns res.
StatusExit(t, r, res) ==
    /\ pc' = [pc EXCEPT ![t] = "done"]
    /\ run' = [run EXCEPT ![t] = r]
    /\ result' = [result EXCEPT ![t] = res]
    /\ UNCHANGED <<syncState, events>>

\* A status call that revalidates whatever the sync state is.
StatusNeverCached == FALSE

\* Line 484.
StatusCached == syncState.inProgress

\* Lines 487-493.
CachedStatus(r, costcoTab) ==
    [kind |-> "status", warehouseMealsConnected |-> r.tokenSeen # NoToken,
     costcoConnected |-> TRUE, hasCostcoTab |-> costcoTab,
     syncInProgress |-> TRUE, syncProgress |-> syncState.progress]

\* Lines 510-516, with validation what validateToken returned, or the
\* defaults of lines 501-502.
FreshStatus(r, validation) ==
    [kind |-> "status", warehouseMealsConnected |-> validation.valid,
     costcoConnected |-> r.loggedIn, hasCostcoTab |-> r.hasTab,
     networkError |-> OrElse(validation, "networkError", FALSE),
     syncInProgress |-> FALSE]

NotValidated == [valid |-> FALSE]

\* A probe whose outcome is always reported as a plain invalid token.
ValidateCatchAll(err) == [valid |-> FALSE]

\* Lines 242-248: the catch block of validateToken.
ValidateCatch(err) ==
    IF err = "NetworkError" THEN [valid |-> FALSE, networkError |-> TRUE]
    ELSE [valid |-> FALSE]

\* Lines 505-516: validateToken has returned validation.
AfterValidate(t, r, validation) ==
    StatusExit(t, Noted(r, [kind |-> "validated", value |-> validation]),
               FreshStatus(r, validation))

\* Lines 500-516: the login state is known.
AfterLogin(t, r) ==
    IF r.tokenSeen # NoToken
    THEN StatusSuspend(t, Noted(r, [kind |-> "validate"]), "st_val_storage")
    ELSE StatusExit(t, r, FreshStatus(r, NotValidated))

\* Line 320: response?.loggedIn || false.
LoggedIn(value) ==
    IF value.isNull THEN FALSE ELSE OrElse(value.value, "loggedIn", FALSE)

\* What the content script may answer checkCostcoLogin with.
LoginValues == {Null, Value([loggedIn |-> TRUE]), Value([loggedIn |-> FALSE])}

\* Lines 482-486 and 496: the handler reads syncState.inProgress and asks
\* the storage for the token.
StatusStart(t) ==
    /\ ~Answering
    /\ pc[t] = "idle"
    /\ StatusSuspend(t,
          Noted(NoStatus, [kind |-> "entry", inProgress |-> syncState.inProgress]),
          IF StatusCached THEN "sp_storage" ELSE "st_storage")
    /\ UNCHANGED <<token, tabOpen, livePorts, contentPorts, pending>>

\* Lines 485-486: getStorage has answered.
CachedStorage(t) ==
    /\ ~Answering
    /\ pc[t] = "sp_storage"
    /\ StatusSuspend(t, [run[t] EXCEPT !.tokenSeen = token], "sp_tab")
    /\ UNCHANGED <<token, tabOpen, livePorts, contentPorts, pending>>

\* Lines 486-493: chrome.tabs.query has answered.
CachedTab(t) ==
    /\ ~Answering
    /\ pc[t] = "sp_tab"
    /\ StatusExit(t, run[t], CachedStatus(run[t], tabOpen))
    /\ UNCHANGED <<token, tabOpen, livePorts, contentPorts, pending>>

\* Lines 496-497: getStorage has answered.
StatusStorage(t) ==
    /\ ~Answering
    /\ pc[t] = "st_storage"
    /\ StatusSuspend(t, [run[t] EXCEPT !.tokenSeen = token], "st_tab")
    /\ UNCHANGED <<token, tabOpen, livePorts, contentPorts, pending>>

\* Lines 497-498: chrome.tabs.query has answered; with a tab the login probe
\* starts (isCostcoLoggedIn, messageContentScript up to its own query).
StatusTab(t) ==
    /\ ~Answering
    /\ pc[t] = "st_tab"
    /\ LET r == [run[t] EXCEPT !.hasTab = tabOpen]
       IN  IF tabOpen
           THEN StatusSuspend(t,
                    Noted(r, [kind |-> "call", action |-> "checkCostcoLogin"]),
                    "st_login_tab")
           ELSE AfterLogin(t, r)
    /\ UNCHANGED <<token, tabOpen, livePorts, contentPorts, pending>>

\* messageContentScript of the login probe: chrome.tabs.query has answered.
\* A channel error is caught by isCostcoLoggedIn (lines 321-323).
LoginSend(t) ==
    /\ ~Answering
    /\ pc[t] = "st_login_tab"
    /\ IF ChannelError # "none"
       THEN /\ AfterLogin(t, Noted(run[t], [kind |-> "thrown", error |-> ChannelError]))
            /\ UNCHANGED pending
       ELSE /\ Post(t)
            /\ StatusSuspend(t,
                  Noted(run[t], [kind |-> "send", action |-> "checkCostcoLogin"]),
                  "st_login_wait")
    /\ UNCHANGED <<token, tabOpen, livePorts, contentPorts>>

\* Lines 319-323: the login probe has settled with s.
OnLogin(t, r, s) ==
    IF s.kind = "reject" THEN AfterLogin(t, r)
    ELSE AfterLogin(t, [r EXCEPT !.loggedIn = LoggedIn(s.value)])

\* A message arrives on the port of the login probe.
LoginReply(t) ==
    /\ ~Answering
    /\ pc[t] = "st_login_wait"
    /\ \E e \in Answerable(t) :
        \E response \in Replies(e.port, LoginValues) :
            LET s == Listener(e, response)
            IN  /\ s.kind # "pending"
                /\ pending' = pending \ {e}
                /\ OnLogin(t, Noted(run[t], MessageEvent(e, response)), s)
    /\ UNCHANGED <<token, tabOpen, livePorts, contentPorts>>

\* What the user endpoint may answer the probe of validateToken with.
ProbeResponses == {[status |-> st] : st \in {200, 401, 403, 500}}

ProbeEvent(r, n) == [kind |-> "http", attempt |-> n, bearer |-> r.bearer]

\* Lines 233-240: getStorage has answered validateToken; no token returns
\* {valid: false}, else authenticatedFetch is called and asks the storage.
ValidateStorage(t) ==
    /\ ~Answering
    /\ pc[t] = "st_val_storage"
    /\ IF token = NoToken
       THEN AfterValidate(t, run[t], NotValidated)
       ELSE StatusSuspend(t, Noted(run[t], [kind |-> "probe"]), "st_af_storage")
    /\ UNCHANGED <<token, tabOpen, livePorts, contentPorts, pending>>

\* Lines 184-202 for the probe: getStorage has answered authenticatedFetch.
ProbeStorage(t) ==
    /\ ~Answering
    /\ pc[t] = "st_af_storage"
    /\ IF NotAuthenticated(token)
       THEN AfterValidate(t,
                Noted(run[t], [kind |-> "thrown", error |-> "NotAuthenticated"]),
                ValidateCatch("NotAuthenticated"))
       ELSE LET r == [run[t] EXCEPT !.bearer = token]
            IN  StatusSuspend(t, Noted(r, ProbeEvent(r, 1)), "st_fetch1")
    /\ UNCHANGED <<token, tabOpen, livePorts, contentPorts, pending>>

\* Lines 203-210, 225 and 241-248 for the probe's first fetch.
ProbeResponse1(t) ==
    /\ ~Answering
    /\ pc[t] = "st_fetch1"
    /\ \/ /\ AfterValidate(t, Noted(run[t], NetworkErrorEvent(1)),
                           ValidateCatch("NetworkError"))
          /\ token' = StoredAfterNetworkError(token)
       \/ \E resp \in ProbeResponses :
            /\ IF RetryNeeded(resp)
               THEN StatusSuspend(t,
                        Noted(Noted(run[t], ResponseEvent(1, resp)), BackoffEvent),
                        "st_backoff")
               ELSE AfterValidate(t, Noted(run[t], ResponseEvent(1, resp)),
                                  [valid |-> Ok(resp)])
            /\ UNCHANGED token
    /\ UNCHANGED <<tabOpen, livePorts, contentPorts, pending>>

\* Line 213 for the probe: the backoff is over, the retry is sent.
ProbeRetry(t) ==
    /\ ~Answering
    /\ pc[t] = "st_backoff"
    /\ StatusSuspend(t, Noted(run[t], ProbeEvent(run[t], 2)), "st_fetch2")
    /\ UNCHANGED <<token, tabOpen, livePorts, contentPorts, pending>>

\* Lines 214-225 and 241-248 for the probe's retry.
ProbeResponse2(t) ==
    /\ ~Answering
    /\ pc[t] = "st_fetch2"
    /\ \/ /\ AfterValidate(t, Noted(run[t], NetworkErrorEvent(2)),
                           ValidateCatch("NetworkError"))
          /\ token' = StoredAfterNetworkError(token)
       \/ \E resp \in ProbeResponses :
            IF Expired(resp)
            THEN /\ token' = NoToken
                 /\ StatusSuspend(t,
                        Noted(Noted(run[t], ResponseEvent(2, resp)), RemoveEvent),
                        "st_remove")
            ELSE /\ AfterValidate(t, Noted(run[t], ResponseEvent(2, resp)),
                                  [valid |-> Ok(resp)])
                 /\ UNCHANGED token
    /\ UNCHANGED <<tabOpen, livePorts, contentPorts, pending>>

\* Lines 221 and 246-247: chrome.storage.local.remove has answered, the
\* session-expired error is thrown and caught by validateToken.
ProbeExpired(t) ==
    /\ ~Answering
    /\ pc[t] = "st_remove"
    /\ AfterValidate(t, Noted(run[t], [kind |-> "thrown", error |-> "SessionExpired"]),
                     ValidateCatch("SessionExpired"))
    /\ UNCHANGED <<token, tabOpen, livePorts, contentPorts, pending>>

----------------------------------------------------------------------------
\* The environment

Frame == UNCHANGED <<syncState, pc, run, result, events>>

\* The user opens costco.com.
OpenTab ==
    /\ ~Answering
    /\ ~tabOpen
    /\ tabOpen' = TRUE
    /\ UNCHANGED <<token, livePorts, contentPorts, pending>>
    /\ Frame

\* The user closes the tab: its ports disconnect.
CloseTab ==
    /\ ~Answering
    /\ tabOpen
    /\ tabOpen' = FALSE
    /\ livePorts' = {}
    /\ contentPorts' = NoPort
    /\ pending' = Orphaned(livePorts)
    /\ UNCHANGED token
    /\ Frame

\* chrome.runtime.onConnect: a content script of the tab connects with a new
\* port object named 'costco'.
PortConnect(p) ==
    /\ ~Answering
    /\ tabOpen
    /\ p \notin livePorts
    /\ livePorts' = livePorts \cup {p}
    /\ contentPorts' = p
    /\ UNCHANGED <<token, tabOpen, pending>>
    /\ Frame

\* port.onDisconnect: contentPorts.delete(tabId).
PortDisconnect(p) ==
    /\ ~Answering
    /\ p \in livePorts
    /\ livePorts' = livePorts \ {p}
    /\ contentPorts' = NoPort
    /\ pending' = Orphaned({p})
    /\ UNCHANGED <<token, tabOpen>>
    /\ Frame

\* authenticateWithWarehouseMeals stores a token.
Authenticate ==
    /\ ~Answering
    /\ token' = "tok"
    /\ token' # token
    /\ UNCHANGED <<tabOpen, livePorts, contentPorts, pending>>
    /\ Frame

\* The tokens the server may issue to the user, one after the other.
Tokens == {"tok", "tok2"}

\* authenticateWithWarehouseMeals stores the token the server has issued: a
\* token other than the one that is stored.
Reconnect ==
    /\ ~Answering
    /\ \E issued \in Tokens :
          /\ issued # token
          /\ token' = issued
    /\ UNCHANGED <<tabOpen, livePorts, contentPorts, pending>>
    /\ Frame

\* disconnectFromWarehouseMeals removes it.
Disconnect ==
    /\ ~Answering
    /\ token # NoToken
    /\ token' = NoToken
    /\ UNCHANGED <<tabOpen, livePorts, contentPorts, pending>>
    /\ Frame

\* The user opens the popup: its listener of line 279 is registered.
PopupOpen ==
    /\ ~Answering
    /\ pc["popup"] = "idle"
    /\ pc' = [pc EXCEPT !["popup"] = "open"]
    /\ UNCHANGED <<syncState, token, tabOpen, livePorts, contentPorts, pending,
                   run, result, events>>

\* The popup is closed.
PopupClose ==
    /\ ~Answering
    /\ pc["popup"] = "open"
    /\ pc' = [pc EXCEPT !["popup"] = "idle"]
    /\ UNCHANGED <<syncState, token, tabOpen, livePorts, contentPorts, pending,
                   run, result, events>>

----------------------------------------------------------------------------
Next ==
    \/ \E t \in Callers : Respond(t)
    \/ \E t \in Callers : Start(t)
    \/ \E t \in Callers : ListSend(t)
    \/ \E t \in Callers : ListReply(t)
    \/ \E t \in Callers : DetailSend(t)
    \/ \E t \in Callers : DetailReply(t)
    \/ \E t \in Callers : DelayDone(t)
    \/ \E t \in Callers : ImportStorage(t)
    \/ \E t \in Callers : ImportResponse1(t)
    \/ \E t \in Callers : ImportRetry(t)
    \/ \E t \in Callers : ImportResponse2(t)
    \/ \E t \in Callers : ImportExpired(t)
    \/ OpenTab
    \/ CloseTab
    \/ \E p \in Ports : PortConnect(p)
    \/ \E p \in Ports : PortDisconnect(p)
    \/ Authenticate
    \/ Disconnect

Spec == Init /\ [][Next]_vars

\* The steps of the getStatus handler.
StatusStep(t) ==
    \/ StatusStart(t)
    \/ CachedStorage(t)
    \/ CachedTab(t)
    \/ StatusStorage(t)
    \/ StatusTab(t)
    \/ LoginSend(t)
    \/ LoginReply(t)
    \/ ValidateStorage(t)
    \/ ProbeStorage(t)
    \/ ProbeResponse1(t)
    \/ ProbeRetry(t)
    \/ ProbeResponse2(t)
    \/ ProbeExpired(t)

\* The sync call that status calls run beside.  A second sync call made
\* meanwhile fails at its guard and touches nothing a status call reads.
StatusSyncCallers == {"c1"}

ShortListValues ==
    {Null} \cup {Value([i \in 1..n |-> Barcode(i, n)]) : n \in 0..StatusMaxReceipts}

ShortListReply(t) == ListReplyOf(t, ShortListValues)

\* The worker with the getStatus handler: status calls beside a sync call
\* whose listing has at most StatusMaxReceipts records.
StatusNext ==
    \/ \E t \in StatusCallers \cup StatusSyncCallers : Respond(t)
    \/ \E t \in StatusCallers : StatusStart(t)
    \/ \E t \in StatusCallers : CachedStorage(t)
    \/ \E t \in StatusCallers : CachedTab(t)
    \/ \E t \in StatusCallers : StatusStorage(t)
    \/ \E t \in StatusCallers : StatusTab(t)
    \/ \E t \in StatusCallers : LoginSend(t)
    \/ \E t \in StatusCallers : LoginReply(t)
    \/ \E t \in StatusCallers : ValidateStorage(t)
    \/ \E t \in StatusCallers : ProbeStorage(t)
    \/ \E t \in StatusCallers : ProbeResponse1(t)
    \/ \E t \in StatusCallers : ProbeRetry(t)
    \/ \E t \in StatusCallers : ProbeResponse2(t)
    \/ \E t \in StatusCallers : ProbeExpired(t)
    \/ \E t \in StatusSyncCallers : Start(t)
    \/ \E t \in StatusSyncCallers : ListSend(t)
    \/ \E t \in StatusSyncCallers : ShortListReply(t)
    \/ \E t \in StatusSyncCallers : DetailSend(t)
    \/ \E t \in StatusSyncCallers : DetailReply(t)
    \/ \E t \in StatusSyncCallers : DelayDone(t)
    \/ \E t \in StatusSyncCallers : ImportStorage(t)
    \/ \E t \in StatusSyncCallers : ImportResponse1(t)
    \/ \E t \in StatusSyncCallers : ImportRetry(t)
    \/ \E t \in StatusSyncCallers : ImportResponse2(t)
    \/ \E t \in StatusSyncCallers : ImportExpired(t)
    \/ OpenTab
    \/ CloseTab
    \/ \E p \in Ports : PortConnect(p)
    \/ \E p \in Ports : PortDisconnect(p)
    \/ Authenticate
    \/ Disconnect

StatusSpec == Init /\ [][StatusNext]_vars

\* The worker with a popup that opens and closes while a sync call runs.
ObserverNext ==
    \/ \E t \in StatusSyncCallers : Respond(t)
    \/ \E t \in StatusSyncCallers : Start(t)
    \/ \E t \in StatusSyncCallers : ListSend(t)
    \/ \E t \in StatusSyncCallers : ShortListReply(t)
    \/ \E t \in StatusSyncCallers : DetailSend(t)
    \/ \E t \in StatusSyncCallers : DetailReply(t)
    \/ \E t \in StatusSyncCallers : DelayDone(t)
    \/ \E t \in StatusSyncCallers : ImportStorage(t)
    \/ \E t \in StatusSyncCallers : ImportResponse1(t)
    \/ \E t \in StatusSyncCallers : ImportRetry(t)
    \/ \E t \in StatusSyncCallers : ImportResponse2(t)
    \/ \E t \in StatusSyncCallers : ImportExpired(t)
    \/ OpenTab
    \/ CloseTab
    \/ \E p \in Ports : PortConnect(p)
    \/ \E p \in Ports : PortDisconnect(p)
    \/ Authenticate
    \/ Disconnect
    \/ PopupOpen
    \/ PopupClose

ObserverSpec == Init /\ [][ObserverNext]_vars

\* The worker with a user who connects again, to a new token, while status
\* calls validate the stored one.
CredentialNext ==
    \/ \E t \in StatusCallers : Respond(t)
    \/ \E t \in StatusCallers : StatusStart(t)
    \/ \E t \in StatusCallers : StatusStorage(t)
    \/ \E t \in StatusCallers : StatusTab(t)
    \/ \E t \in StatusCallers : LoginSend(t)
    \/ \E t \in StatusCallers : LoginReply(t)
    \/ \E t \in StatusCallers : ValidateStorage(t)
    \/ \E t \in StatusCallers : ProbeStorage(t)
    \/ \E t \in StatusCallers : ProbeResponse1(t)
    \/ \E t \in StatusCallers : ProbeRetry(t)
    \/ \E t \in StatusCallers : ProbeResponse2(t)
    \/ \E t \in StatusCallers : ProbeExpired(t)
    \/ OpenTab
    \/ CloseTab
    \/ \E p \in Ports : PortConnect(p)
    \/ \E p \in Ports : PortDisconnect(p)
    \/ Reconnect
    \/ Disconnect

CredentialSpec == Init /\ [][CredentialNext]_vars

----------------------------------------------------------------------------
\* The popup (src/popup/popup.js): refreshStatus and updateUI

\* The sync button as the popup page shows it.
Button(disabled, loading) == [kind |-> "ui", syncDisabled |-> disabled, loading |-> loading]

\* A button that does not ask for the Costco login.
CanSyncWithoutLogin(status) ==
    /\ (status.warehouseMealsConnected \/ OrElse(status, "networkError", FALSE))
    /\ status.hasCostcoTab

\* Line 94.
CanSync(status) ==
    /\ (status.warehouseMealsConnected \/ OrElse(status, "networkError", FALSE))
    /\ status.costcoConnected
    /\ status.hasCostcoTab

\* Lines 83-95 of updateUI: the sync button after the status; ui is the
\* button before.  setSyncLoading(true) (lines 126-131) disables the button
\* and shows it loading; the other branch leaves the loading state alone.
updateUI(ui, status) ==
    IF OrElse(status, "syncInProgress", FALSE)
    THEN Button(TRUE, TRUE)
    ELSE Button(~CanSync(status), ui.kind = "ui" /\ ui.loading)

\* Line 265: the status refreshStatus shows when getStatus has failed.
FallbackStatus ==
    [kind |-> "status", warehouseMealsConnected |-> FALSE,
     costcoConnected |-> FALSE, hasCostcoTab |-> FALSE]

\* The popup's state after updateUI(status).
Shown(status) ==
    /\ run' = [run EXCEPT !["popup"] = [status |-> status]]
    /\ result' = [result EXCEPT !["popup"] = updateUI(result["popup"], status)]

\* Lines 259-262: the answer of the status call s reaches the popup that is
\* open, and updateUI runs.
PopupRefresh(s) ==
    /\ pc[s] = "done"
    /\ Observed
    /\ pc' = [pc EXCEPT ![s] = "idle"]
    /\ run' = [run EXCEPT ![s] = NoRun, !["popup"] = [status |-> result[s]]]
    /\ result' = [result EXCEPT ![s] = NoResult,
                                !["popup"] = updateUI(result["popup"], result[s])]
    /\ UNCHANGED <<syncState, token, tabOpen, livePorts, contentPorts, pending, events>>

\* Lines 263-266: sendMessage has rejected (the worker could not be reached).
PopupRefreshFailed ==
    /\ ~Answering
    /\ Observed
    /\ Shown(FallbackStatus)
    /\ UNCHANGED <<syncState, token, tabOpen, livePorts, contentPorts, pending,
                   pc, events>>

\* The popup page is closed and with it its button.
PopupGone ==
    /\ ~Answering
    /\ Observed
    /\ pc' = [pc EXCEPT !["popup"] = "idle"]
    /\ run' = [run EXCEPT !["popup"] = NoRun]
    /\ result' = [result EXCEPT !["popup"] = NoResult]
    /\ UNCHANGED <<syncState, token, tabOpen, livePorts, contentPorts, pending, events>>

\* The listings without a receipt: null, and the empty list.
NoReceiptValues == {Null, Value(<< >>)}

NoReceiptReply(t) == ListReplyOf(t, NoReceiptValues)

\* The popup beside the worker: status calls whose answers the popup shows,
\* and a sync call that finds no receipts.
PopupNext ==
    \/ \E t \in StatusCallers \cup StatusSyncCallers : Respond(t)
    \/ \E t \in StatusCallers : PopupRefresh(t)
    \/ PopupRefreshFailed
    \/ PopupOpen
    \/ PopupGone
    \/ \E t \in StatusCallers : StatusStart(t)
    \/ \E t \in StatusCallers : CachedStorage(t)
    \/ \E t \in StatusCallers : CachedTab(t)
    \/ \E t \in StatusCallers : StatusStorage(t)
    \/ \E t \in StatusCallers : StatusTab(t)
    \/ \E t \in StatusCallers : LoginSend(t)
    \/ \E t \in StatusCallers : LoginReply(t)
    \/ \E t \in StatusCallers : ValidateStorage(t)
    \/ \E t \in StatusCallers : ProbeStorage(t)
    \/ \E t \in StatusCallers : ProbeResponse1(t)
    \/ \E t \in StatusCallers : ProbeRetry(t)
    \/ \E t \in StatusCallers : ProbeResponse2(t)
    \/ \E t \in StatusCallers : ProbeExpired(t)
    \/ \E t \in StatusSyncCallers : Start(t)
    \/ \E t \in StatusSyncCallers : ListSend(t)
    \/ \E t \in StatusSyncCallers : NoReceiptReply(t)
    \/ OpenTab
    \/ CloseTab
    \/ \E p \in Ports : PortConnect(p)
    \/ \E p \in Ports : PortDisconnect(p)

PopupSpec == Init /\ [][PopupNext]_vars

\* The port objects of a tab whose content script connects a second time
\* while its first connection is still open.
RegistryPorts == {"p1", "p2"}

\* The worker with a tab that may hold two connections at a time, beside a
\* sync call.
RegistryNext ==
    \/ \E t \in StatusSyncCallers : Respond(t)
    \/ \E t \in StatusSyncCallers : Start(t)
    \/ \E t \in StatusSyncCallers : ListSend(t)
    \/ \E t \in StatusSyncCallers : ShortListReply(t)
    \/ \E t \in StatusSyncCallers : DetailSend(t)
    \/ \E t \in StatusSyncCallers : DetailReply(t)
    \/ \E t \in StatusSyncCallers : DelayDone(t)
    \/ \E t \in StatusSyncCallers : ImportStorage(t)
    \/ \E t \in StatusSyncCallers : ImportResponse1(t)
    \/ \E t \in StatusSyncCallers : ImportRetry(t)
    \/ \E t \in StatusSyncCallers : ImportResponse2(t)
    \/ \E t \in StatusSyncCallers : ImportExpired(t)
    \/ OpenTab
    \/ CloseTab
    \/ \E p \in RegistryPorts : PortConnect(p)
    \/ \E p \in RegistryPorts : PortDisconnect(p)

RegistrySpec == Init /\ [][RegistryNext]_vars

----------------------------------------------------------------------------
\* The content script: the onMessage listener of src/content/costco.js
\* (lines 235-261).  It runs in the page's context and shares no state with
\* the worker.

\* The correlation ids a request may carry.
ScriptIds == {1, 2}

ScriptActions == {"fetchCostcoReceipts", "fetchCostcoReceiptDetails",
                  "checkCostcoLogin", "ping"}

\* The requests {action, ...params, id} that may reach the listener, one of
\* them with an action it does not know.
ScriptRequests ==
    {[action |-> a, id |-> n] : a \in ScriptActions \cup {"exportAll"}, n \in ScriptIds}

\* A JavaScript array, as a value.
Array(items) == [isArray |-> TRUE, items |-> items]

Return(v) == [kind |-> "return", value |-> v]

Throw(e) == [kind |-> "throw", error |-> e]

\* Lines 237-252: what handleMessage settles with.  The two fetches throw
\* when no session token is found or the Costco API fails.
ScriptOutcomes(message) ==
    IF message.action = "fetchCostcoReceipts"
    THEN {Return(Array(<< >>)), Return(Array(<<[transactionBarcode |-> 10]>>)),
          Throw("NotLoggedIn"), Throw("CostcoApiError")}
    ELSE IF message.action = "fetchCostcoReceiptDetails"
    THEN {Return(BareDetail(10)), Return(Null), Throw("NotLoggedIn"), Throw("CostcoApiError")}
    ELSE IF message.action = "checkCostcoLogin"
    THEN {Return([loggedIn |-> TRUE]), Return([loggedIn |-> FALSE])}
    ELSE IF message.action = "ping"
    THEN {Return([pong |-> TRUE])}
    ELSE {Throw("UnknownAction")}

\* Lines 256-258: what sendResponse is called with.
ScriptAnswer(outcome) ==
    IF outcome.kind = "return" THEN outcome.value ELSE [error |-> outcome.error]

\* Line 235: the listener is called with a message.
ScriptReceive(m) ==
    /\ pc[m] = "idle"
    /\ \E message \in ScriptRequests :
          run' = [run EXCEPT ![m] = [message |-> message, outcome |-> NoResult]]
    /\ pc' = [pc EXCEPT ![m] = "sc_handling"]
    /\ UNCHANGED <<syncState, token, tabOpen, livePorts, contentPorts, pending,
                   result, events>>

\* Lines 256-258: handleMessage has settled and sendResponse is called.
ScriptSettle(m) ==
    /\ pc[m] = "sc_handling"
    /\ \E outcome \in ScriptOutcomes(run[m].message) :
          /\ run' = [run EXCEPT ![m].outcome = outcome]
          /\ result' = [result EXCEPT ![m] = ScriptAnswer(outcome)]
    /\ pc' = [pc EXCEPT ![m] = "sc_answered"]
    /\ UNCHANGED <<syncState, token, tabOpen, livePorts, contentPorts, pending, events>>

\* The sender has the answer; the listener may be called again.
ScriptForget(m) ==
    /\ pc[m] = "sc_answered"
    /\ pc' = [pc EXCEPT ![m] = "idle"]
    /\ run' = [run EXCEPT ![m] = NoRun]
    /\ result' = [result EXCEPT ![m] = NoResult]
    /\ UNCHANGED <<syncState, token, tabOpen, livePorts, contentPorts, pending, events>>

ScriptNext ==
    \/ \E m \in ScriptCalls : ScriptReceive(m)
    \/ \E m \in ScriptCalls : ScriptSettle(m)
    \/ \E m \in ScriptCalls : ScriptForget(m)

ScriptSpec == Init /\ [][ScriptNext]_vars

\* The steps of a run after its start.
RunStep(t) ==
    \/ ListSend(t)
    \/ ListReply(t)
    \/ DetailSend(t)
    \/ DetailReply(t)
    \/ DelayDone(t)
    \/ ImportStorage(t)
    \/ ImportResponse1(t)
    \/ ImportRetry(t)
    \/ ImportResponse2(t)
    \/ ImportExpired(t)

\* The event loop runs every task that is ready, timers fire, chrome's own
\* calls and the network answer, and the content script answers every
\* message that reaches it while its port is connected.  Nothing obliges the
\* user to start a sync or the tab to stay open.
FairSpec ==
    /\ Spec
    /\ \A t \in Callers : WF_vars(Respond(t))
    /\ \A t \in Callers : WF_vars(RunStep(t))

----------------------------------------------------------------------------
\* Reading the history of the current run

EventsOf(kind) == SelectSeq(events, LAMBDA e : e.kind = kind)

ListedEvents == EventsOf("listed")

\* The list the content script answered, and its length N.
Listing == IF ListedEvents = << >> THEN << >> ELSE ListedEvents[1].receipts

N == Len(Listing)

Settles == EventsOf("settle")

Successes == SelectSeq(Settles, LAMBDA e : e.outcome = "detail")

Failures == SelectSeq(Settles, LAMBDA e : e.outcome # "detail")

DetailCalls ==
    SelectSeq(events, LAMBDA e : e.kind = "call" /\ e.action = "fetchCostcoReceiptDetails")

DetailSends ==
    SelectSeq(events, LAMBDA e : e.kind = "send" /\ e.action = "fetchCostcoReceiptDetails")

Imports == EventsOf("import")

Https == EventsOf("http")

Publishes == EventsOf("publish")

Delays == EventsOf("delay")

\* The run has ended and its answer is being handed over.
Returned == events # << >> /\ events[Len(events)].kind = "return"

Answer == events[Len(events)].result

RunPcs == {"list_tab", "list_wait", "det_tab", "det_wait", "delay", "imp_storage",
           "imp_fetch1", "imp_backoff", "imp_fetch2", "imp_remove"}

\* The callers between the guard of syncReceipts and its finally block.
Running == {t \in Callers : pc[t] \in RunPcs}

Rejected(t) ==
    pc[t] = "done" /\ result[t].kind = "error" /\ result[t].error = "AlreadyInProgress"

Idle == [inProgress |-> FALSE, progress |-> NullProgress]

----------------------------------------------------------------------------
\* C1: a call of syncReceipts made while syncState.inProgress is true fails
\* with the already-in-progress error, leaves syncState.inProgress and
\* syncState.progress as they are and publishes nothing; so at most one run
\* is between the guard and its cleanup at any time.
C1_SingleFlight ==
    /\ [](Cardinality(Running) <= 1)
    /\ [][\A t \in Callers :
            (pc[t] = "idle" /\ pc'[t] # "idle" /\ syncState.inProgress)
            => /\ Rejected(t)'
               /\ syncState' = syncState
               /\ events' = events
               /\ run' = run]_vars

C1_Witness ==
    \E t, u \in Callers :
        /\ Rejected(t)
        /\ pc[u] = "det_wait"
        /\ syncState = [inProgress |-> TRUE, progress |-> FetchingProgress(2, 3)]

\* C2: every run that passed the guard and then exits, by the empty-list
\* return, by a return after the import or by a thrown error, leaves
\* syncState.inProgress false and syncState.progress null, and the last
\* progress message it published is null.
C2_CleanupOnEveryExit ==
    /\ \A t \in Callers : (pc[t] = "done" /\ ~Rejected(t)) => Returned
    /\ Returned =>
        /\ syncState = Idle
        /\ Publishes # << >>
        /\ Publishes[Len(Publishes)].progress = NullProgress
        /\ events[Len(events) - 1] = [kind |-> "publish", progress |-> NullProgress]

C2_Witness ==
    /\ Returned
    /\ Answer.kind = "error"
    /\ Answer.error = "ServerError"
    /\ syncState = Idle

\* C3: whatever the content-script channel and the network do (answers,
\* error answers, connection drops), every startSync call eventually
\* resolves, and syncState.inProgress eventually returns to false.
C3_EveryCallResolves ==
    /\ \A t \in Callers : (pc[t] \in RunPcs) ~> (pc[t] = "done")
    /\ syncState.inProgress ~> ~syncState.inProgress

\* A state in which C3 is already lost: a run waits for the answer to a
\* message whose port has disconnected, so no message can settle the call.
\* Reachable, which is what the behaviour refuting C3 ends in.
C3_NoCallIsStranded ==
    \A t \in Callers :
        pc[t] \in {"list_wait", "det_wait"} => Answerable(t) # {}

\* The import payload the successful fetches of the history call for: their
\* details, filtered, in the order of the listing.
ExpectedPayload ==
    [j \in 1..Len(Successes) |-> filterReceiptData(Successes[j].details)]

\* The settled fetches are those of records 1, 2, ... of the listing.
InListingOrder(seq) ==
    LET listing == Listing
    IN  \A j \in 1..Len(seq) :
            seq[j].index = j /\ j <= Len(listing) /\ seq[j].barcode = listing[j]

AllSettled == N >= 1 /\ Len(Settles) = N

\* C4: if the listing has N records and k of the N detail fetches succeed,
\* 1 <= k <= N, the run makes exactly one import request, whose payload is
\* the k successful details, filtered, in listing order; a result the run
\* returns has fetchFailed = N - k.  (An import request is one call of the
\* import endpoint through authenticatedFetch; its first HTTP attempt and
\* the retry after a 401 carry the same payload.)
C4_PartialSuccessImport ==
    /\ InListingOrder(Settles)
    /\ Len(Imports) <= 1
    /\ (AllSettled /\ Len(Successes) >= 1) =>
          /\ Len(Imports) = 1
          /\ Imports[1].receipts = ExpectedPayload
    /\ Imports # << >> => (AllSettled /\ Len(Successes) >= 1)
    /\ Len(Https) <= 2
    /\ \A j \in 1..Len(Https) :
          /\ Https[j].attempt = j
          /\ Imports # << >>
          /\ Https[j].receipts = ExpectedPayload
    /\ (Returned /\ Answer.kind = "result") =>
          /\ AllSettled
          /\ Len(Successes) >= 1
          /\ Len(Imports) = 1
          /\ Len(Https) >= 1
          /\ Answer.success
          /\ Answer.fetchFailed = N - Len(Successes)

\* 2 of 3 fetches succeed, the failed one in the middle.
C4_Witness ==
    /\ Returned
    /\ Answer.kind = "result"
    /\ N = 3
    /\ Len(Successes) = 2
    /\ Settles[2].outcome # "detail"
    /\ Answer.fetchFailed = 1
    /\ Len(Imports[1].receipts) = 2

\* C5: if the listing has N >= 1 records and every one of the N detail
\* fetches fails (a rejected call or a null detail), the run fails with the
\* aggregate error that reports N, and no import request is sent.
C5_AllFailedAborts ==
    (AllSettled /\ Successes = << >>) =>
        /\ Returned
        /\ Answer.kind = "error"
        /\ Answer.error = "AllFetchesFailed"
        /\ Answer.count = N
        /\ Imports = << >>
        /\ Https = << >>
        /\ \A j \in 1..Len(Publishes) : Publishes[j].progress.phase # "importing"

C5_Witness ==
    /\ Returned
    /\ N = 3
    /\ Len(Settles) = 3
    /\ Settles[1].outcome = "null"
    /\ Settles[2].outcome = "rejected"
    /\ Settles[3].outcome = "rejected"
    /\ Answer.kind = "error"
    /\ Answer.error = "AllFetchesFailed"

\* C6: if the listing call returns an empty list, the run returns a result
\* with success = true and count = 0, and sends neither a detail-fetch
\* request nor an import request.
C6_EmptyListing ==
    (ListedEvents # << >> /\ ListedEvents[1].outcome = "list" /\ N = 0) =>
        /\ Returned
        /\ Answer.kind = "empty"
        /\ Answer.success
        /\ Answer.count = 0
        /\ DetailCalls = << >>
        /\ DetailSends = << >>
        /\ Settles = << >>
        /\ Imports = << >>
        /\ Https = << >>

C6_Witness ==
    /\ Returned
    /\ ListedEvents # << >>
    /\ ListedEvents[1].outcome = "list"
    /\ ListedEvents[1].receipts = << >>
    /\ Answer.kind = "empty"

\* C7: a detail fetch that rejects or yields null never aborts the run: each
\* of the N listed records is fetched exactly once whatever the earlier
\* fetches did, and the id of each failed record is put on the failures list
\* instead of being raised.
C7_FailuresCollected ==
    /\ InListingOrder(DetailCalls)
    /\ InListingOrder(Settles)
    /\ Len(DetailCalls) - Len(Settles) \in {0, 1}
    /\ (Returned /\ N >= 1) =>
          /\ Len(DetailCalls) = N
          /\ Len(Settles) = N
          /\ Answer.kind \in {"error", "result"}
          /\ Answer.kind = "error" =>
                Answer.error \notin {"Remote", "ChannelUnavailable", "ChannelNotConnected"}
          /\ Answer.kind = "result" => Answer.fetchFailed = Len(Failures)
          /\ (Answer.kind = "error" /\ Answer.error = "AllFetchesFailed") =>
                Answer.count = Len(Failures)
    /\ \A t \in Running :
          (Settles # << >>) =>
              /\ run[t].failedReceipts = [j \in 1..Len(Failures) |-> Failures[j].barcode]
              /\ Len(run[t].detailedReceipts) = Len(Successes)

\* The first fetch rejects, the second yields null, the third succeeds.
C7_Witness ==
    /\ N = 3
    /\ Len(Settles) = 3
    /\ Settles[1].outcome = "rejected"
    /\ Settles[2].outcome = "null"
    /\ Settles[3].outcome = "detail"
    /\ \E t \in Running : run[t].failedReceipts = <<Listing[1], Listing[2]>>

\* The positions of the history that hold a detail-fetch request.
SendPositions ==
    {p \in 1..Len(events) :
        events[p].kind = "send" /\ events[p].action = "fetchCostcoReceiptDetails"}

\* C8: within a run the detail-fetch requests are sent in listing order and
\* at most one of them is outstanding at any time: the request for a record
\* is sent only after the requests for the records before it have settled.
C8_SequentialFetches ==
    LET sent == SendPositions
        listing == Listing
    IN  /\ \A p \in sent :
              /\ events[p].index \in 1..Len(listing)
              /\ events[p].barcode = listing[events[p].index]
        /\ \A p, q \in sent :
              p < q =>
                  /\ events[p].index < events[q].index
                  /\ \E s \in (p + 1)..(q - 1) :
                        events[s].kind = "settle" /\ events[s].index = events[p].index
        /\ \A t \in Callers : Cardinality({e \in pending : e.caller = t}) <= 1
        /\ Cardinality(sent) - Len(SelectSeq(Settles, LAMBDA e :
                \E p \in sent : events[p].index = e.index)) \in {0, 1}

C8_Witness ==
    /\ Len(DetailSends) = 3
    /\ \E t \in Callers : pc[t] = "det_wait" /\ run[t].i = 3
    /\ Len(Settles) = 2

\* C9: in a run over N >= 1 records exactly one 1-second delay lies between
\* the settlement of fetch i and the sending of fetch i+1, for every i < N,
\* and none follows the last fetch: N - 1 delays in all, whether the fetches
\* succeed or fail.
C9_RateLimitDelays ==
    /\ \A p \in 1..Len(events) :
          events[p].kind = "settle" =>
              IF events[p].index < N
              THEN /\ p < Len(events)
                   /\ events[p + 1] = [kind |-> "delay", ms |-> 1000]
                   /\ (p + 1 < Len(events)) => events[p + 2].kind = "publish"
              ELSE (p < Len(events)) => events[p + 1].kind # "delay"
    /\ \A p \in 1..Len(events) :
          events[p].kind = "delay" => (p > 1 /\ events[p - 1].kind = "settle")
    /\ \A p \in 1..Len(events) :
          (events[p].kind = "call" /\ events[p].action = "fetchCostcoReceiptDetails"
             /\ events[p].index > 1)
          => /\ events[p - 2].kind = "delay"
             /\ events[p - 3].kind = "settle"
             /\ events[p - 3].index = events[p].index - 1
    /\ \A t \in Callers : pc[t] = "delay" <=> (t \in Running /\ events[Len(events)].kind = "delay")
    /\ AllSettled => Len(Delays) = N - 1

C9_Witness ==
    /\ Returned
    /\ N = 3
    /\ Len(Settles) = 3
    /\ Len(Delays) = 2
    /\ Settles[1].outcome = "rejected"
    /\ Settles[3].outcome = "detail"

FetchingPublishes == SelectSeq(Publishes, LAMBDA e : e.progress.phase = "fetching")

\* C10: during the Fetching phase of a run over N records the published
\* fetching snapshots have current = 1, 2, ..., N in that order, one per
\* record, and each has total = N.
C10_FetchingProgress ==
    /\ \A j \in 1..Len(FetchingPublishes) :
          FetchingPublishes[j].progress = [phase |-> "fetching", current |-> j, total |-> N]
    /\ Len(FetchingPublishes) = Len(DetailCalls)
    /\ Len(FetchingPublishes) <= N
    /\ AllSettled => Len(FetchingPublishes) = N
    /\ \A t \in Callers :
          pc[t] \in {"det_tab", "det_wait", "delay"} =>
              syncState.progress = [phase |-> "fetching", current |-> run[t].i, total |-> N]

C10_Witness ==
    /\ Returned
    /\ N = 3
    /\ Len(FetchingPublishes) = 3
    /\ FetchingPublishes[3].progress.current = 3

----------------------------------------------------------------------------
\* Reading the history of a call of authenticatedFetch

\* What the call of t did so far: the history of the run for a sync call,
\* the log of its locals for a status call.
Log(t) ==
    IF t \in Callers
    THEN IF t \in Running \/ (pc[t] = "done" /\ ~Rejected(t)) THEN events ELSE << >>
    ELSE IF "log" \in DOMAIN run[t] THEN run[t].log ELSE << >>

ClientKinds == {"http", "response", "neterror", "backoff", "remove"}

\* The steps of authenticatedFetch in the call of t.
Client(t) == SelectSeq(Log(t), LAMBDA e : e.kind \in ClientKinds)

Workers == Callers \cup StatusCallers

Is401(e) == e.kind = "response" /\ e.response.status = 401

\* The error the call of t ended with, "none" while it has not.
Thrown(t) ==
    IF t \in Callers
    THEN IF pc[t] = "done" /\ result[t].kind = "error" THEN result[t].error ELSE "none"
    ELSE LET thrown == SelectSeq(Log(t), LAMBDA e : e.kind = "thrown")
         IN  IF thrown = << >> THEN "none" ELSE thrown[Len(thrown)].error

\* C11: authenticatedFetch makes at most two HTTP attempts per call; the
\* second is made only when the first response was 401, only after the
\* 1-second backoff, and with the credential of the first; a first 401 is
\* always followed by the backoff; when the second response is 401 too the
\* stored credential is removed and the call fails with the session-expired
\* error, and it fails with that error in no other case.
C11_RetryOnceThenExpire ==
    /\ [](\A t \in Workers :
            LET L == Client(t)
            IN  /\ Len(SelectSeq(L, LAMBDA e : e.kind = "http")) <= 2
                /\ L # << >> =>
                      (L[1].kind = "http" /\ L[1].attempt = 1 /\ L[1].bearer # NoToken)
                /\ \A p \in 2..Len(L) :
                      L[p].kind = "http" =>
                          /\ p = 4
                          /\ L[4].attempt = 2
                          /\ Is401(L[2])
                          /\ L[3] = [kind |-> "backoff", ms |-> 1000]
                          /\ L[4].bearer = L[1].bearer
                /\ (Len(L) >= 2 /\ Is401(L[2])) =>
                      (Len(L) >= 3 /\ L[3].kind = "backoff")
                /\ (Len(L) >= 5 /\ Is401(L[5])) =>
                      (Len(L) = 6 /\ L[6].kind = "remove")
                /\ Thrown(t) = "SessionExpired" =>
                      (Len(L) = 6 /\ Is401(L[2]) /\ Is401(L[5]))
                /\ (pc[t] = "done" /\ Len(L) >= 5 /\ Is401(L[5])) =>
                      Thrown(t) = "SessionExpired")
    /\ [][\A t \in Workers :
            /\ (pc[t] \in {"imp_fetch2", "st_fetch2"}
                    /\ pc'[t] \in {"imp_remove", "st_remove"})
               => (token' = NoToken /\ Is401(Client(t)'[5]))
            /\ (pc[t] \in {"imp_remove", "st_remove"} /\ pc'[t] # pc[t])
               => (pc'[t] = "done" /\ Thrown(t)' = "SessionExpired")]_vars

\* An import that got 401 twice: the token is gone, the run has failed.
C11_Witness ==
    \E t \in Callers :
        /\ pc[t] = "done"
        /\ result[t] = Failure("SessionExpired")
        /\ Len(Client(t)) = 6
        /\ token = NoToken

\* The responses authenticatedFetch got in the call of t.
Responded(t) == SelectSeq(Client(t), LAMBDA e : e.kind = "response")

\* The response authenticatedFetch returned in the call of t, if it did.
ReturnedResponse(t) ==
    LET R == Responded(t)
    IN  IF R # << >> /\ R[Len(R)].response.status # 401
        THEN {R[Len(R)].response} ELSE {}

\* What validateToken returned in the status call of t.
Validated(t) == SelectSeq(Log(t), LAMBDA e : e.kind = "validated")

\* The lists of the run as the history gives them.
HistoryRun == [detailedReceipts |-> Successes, failedReceipts |-> Failures]

\* C12: a response whose status is not 401, got on the first attempt or on
\* the retry after one 401, is what authenticatedFetch returns, whatever its
\* status: the import turns exactly that response into its result or error
\* and validateToken reports its ok flag; the step that receives it leaves
\* the stored credential as it is.
C12_OtherStatusReturned ==
    /\ [](\A t \in Workers :
            \A resp \in ReturnedResponse(t) :
                /\ pc[t] = "done"
                /\ Len(Responded(t)) \in {1, 2}
                /\ Len(Responded(t)) = 2 => Is401(Responded(t)[1])
                /\ \A p \in 1..Len(Client(t)) : Client(t)[p].kind # "remove"
                /\ t \in Callers => result[t] = ImportOutcome(resp, HistoryRun)
                /\ t \in StatusCallers =>
                      /\ Validated(t) = << [kind |-> "validated", value |-> [valid |-> Ok(resp)]] >>
                      /\ result[t].warehouseMealsConnected = Ok(resp)
                      /\ ~result[t].networkError)
    /\ [][\A t \in Workers :
            (ReturnedResponse(t) = {} /\ ReturnedResponse(t)' # {}) => token' = token]_vars

\* A probe answered 401 and then 500: reported invalid, the token kept.
C12_Witness ==
    \E t \in StatusCallers :
        /\ pc[t] = "done"
        /\ Len(Responded(t)) = 2
        /\ Responded(t)[2].response.status = 500
        /\ ~result[t].warehouseMealsConnected
        /\ token # NoToken

\* The call of t has ended in a NetworkError of attempt n.
NetworkFailed(t, n) ==
    LET L == Client(t)
    IN  L # << >> /\ L[Len(L)] = [kind |-> "neterror", attempt |-> n]

\* C13: the stored credential goes from present to absent only in a step of
\* disconnectFromWarehouseMeals or in the step of an authenticatedFetch call
\* that has just got its second consecutive 401; a call that ends in
\* NetworkError, on the first attempt or on the retry, leaves the stored
\* credential as it is.
C13_CredentialCleared ==
    /\ [][(token # NoToken /\ token' = NoToken) =>
            \/ Disconnect
            \/ \E t \in Workers :
                  /\ pc[t] \in {"imp_fetch2", "st_fetch2"}
                  /\ pc'[t] \in {"imp_remove", "st_remove"}
                  /\ Len(Responded(t)') = 2
                  /\ Is401(Responded(t)'[1])
                  /\ Is401(Responded(t)'[2])]_vars
    /\ [][\A t \in Workers : \A n \in {1, 2} :
            (~NetworkFailed(t, n) /\ NetworkFailed(t, n)') =>
                /\ token' = token
                /\ pc'[t] = "done"
                /\ t \in Callers => result'[t] = Failure("NetworkError")
                /\ t \in StatusCallers => result'[t].networkError]_vars

\* An import whose retry ended in a NetworkError, the token still stored.
C13_Witness ==
    \E t \in Callers :
        /\ pc[t] = "done"
        /\ NetworkFailed(t, 2)
        /\ result[t] = Failure("NetworkError")
        /\ token # NoToken

\* The positions at which authenticatedFetch waits for the storage.
StoragePcs == {"imp_storage", "st_af_storage"}

\* C14: a call of authenticatedFetch that finds no credential in the storage
\* fails with the not-authenticated error and sends no HTTP request; no
\* request is ever sent without a credential.
C14_NotAuthenticated ==
    /\ [](\A t \in Workers :
            /\ Thrown(t) = "NotAuthenticated" => Client(t) = << >>
            /\ \A p \in 1..Len(Client(t)) :
                  Client(t)[p].kind = "http" => Client(t)[p].bearer # NoToken)
    /\ [][\A t \in Workers :
            (pc[t] \in StoragePcs /\ pc'[t] # pc[t]) =>
                IF token = NoToken
                THEN /\ pc'[t] = "done"
                     /\ Thrown(t)' = "NotAuthenticated"
                     /\ Client(t)' = << >>
                ELSE /\ Len(Client(t)') = 1
                     /\ Client(t)'[1].kind = "http"
                     /\ Client(t)'[1].bearer = token]_vars

\* The token is removed between the read of validateToken and the read of
\* authenticatedFetch: the probe is not sent.
C14_Witness ==
    \E t \in StatusCallers :
        /\ pc[t] = "done"
        /\ run[t].tokenSeen # NoToken
        /\ Thrown(t) = "NotAuthenticated"
        /\ Client(t) = << >>
        /\ ~result[t].warehouseMealsConnected

\* What validateToken has to return after the steps L of its probe.
ExpectedValidation(L) ==
    IF L = << >> THEN [valid |-> FALSE]
    ELSE LET last == L[Len(L)]
         IN  IF last.kind = "neterror" THEN [valid |-> FALSE, networkError |-> TRUE]
             ELSE IF last.kind = "remove" THEN [valid |-> FALSE]
             ELSE [valid |-> last.response.status \in 200..299]

\* C15: validateToken returns {valid: false} without an HTTP request when it
\* finds no credential stored (at its own read, or at the read of the
\* authenticatedFetch it calls); {valid: false, networkError: true}, the
\* credential left as it is, when the probe ends in NetworkError;
\* {valid: false}, the credential removed, when the probe got 401 twice; and
\* {valid: response.ok} when the probe returned a response.
C15_ValidateToken ==
    /\ [](\A t \in StatusCallers :
            /\ Len(Validated(t)) <= 1
            /\ Validated(t) # << >> =>
                  LET L == Client(t)
                  IN  /\ pc[t] = "done"
                      /\ Validated(t)[1].value = ExpectedValidation(L)
                      /\ L # << >> => L[Len(L)].kind \in {"neterror", "remove", "response"}
                      /\ (L # << >> /\ L[Len(L)].kind = "response") => ~Is401(L[Len(L)])
                      /\ (L # << >> /\ L[Len(L)].kind = "remove") =>
                            (Is401(L[2]) /\ Is401(L[5]))
                      /\ Thrown(t) \in {"NotAuthenticated", "ChannelUnavailable",
                                         "ChannelNotConnected", "none"} <=>
                            (L = << >> \/ L[Len(L)].kind # "remove"))
    /\ [][\A t \in StatusCallers :
            /\ (pc[t] = "st_val_storage" /\ pc'[t] # pc[t] /\ token = NoToken) =>
                  /\ Validated(t)' = << [kind |-> "validated", value |-> [valid |-> FALSE]] >>
                  /\ Client(t)' = << >>
            /\ (Validated(t) = << >> /\ Validated(t)' # << >>) => token' = token
            /\ (pc[t] = "st_fetch2" /\ pc'[t] = "st_remove") => token' = NoToken]_vars

\* The probe failed in transit: indeterminate, and the token is kept.
C15_Witness ==
    \E t \in StatusCallers :
        /\ pc[t] = "done"
        /\ Validated(t) # << >>
        /\ Validated(t)[1].value = [valid |-> FALSE, networkError |-> TRUE]
        /\ NetworkFailed(t, 1)
        /\ result[t].networkError
        /\ token # NoToken

\* The status call of t found syncState.inProgress true on entry.
EnteredInProgress(t) == Log(t) # << >> /\ Log(t)[1].inProgress

\* C16: a getStatus call that finds syncState.inProgress true on entry calls
\* neither validateToken nor the login probe, sends no message to the
\* content script and no HTTP request, and returns syncInProgress = true,
\* costcoConnected = true and warehouseMealsConnected = whether the storage
\* held a token when the call read it.
C16_StatusDuringSync ==
    /\ [](\A t \in StatusCallers :
            /\ Log(t) # << >> => Log(t)[1].kind = "entry"
            /\ EnteredInProgress(t) =>
                  /\ Len(Log(t)) = 1
                  /\ pc[t] \in {"sp_storage", "sp_tab", "done"}
                  /\ \A e \in pending : e.caller # t
                  /\ pc[t] = "done" =>
                        /\ result[t].syncInProgress
                        /\ result[t].costcoConnected
                        /\ result[t].warehouseMealsConnected = (run[t].tokenSeen # NoToken)
            /\ (Log(t) # << >> /\ ~EnteredInProgress(t)) =>
                  /\ pc[t] \notin {"sp_storage", "sp_tab"}
                  /\ pc[t] = "done" => ~result[t].syncInProgress)
    /\ [][\A t \in StatusCallers :
            /\ (pc[t] = "idle" /\ pc'[t] # "idle") =>
                  (Log(t)' = << [kind |-> "entry", inProgress |-> syncState.inProgress] >>)
            /\ (pc[t] = "sp_storage" /\ pc'[t] # pc[t]) =>
                  (pc'[t] = "sp_tab" /\ run'[t].tokenSeen = token)
            /\ (pc[t] = "sp_tab" /\ pc'[t] # pc[t]) =>
                  (pc'[t] = "done" /\ result'[t].hasCostcoTab = tabOpen)]_vars

\* The run ended and the tab was closed while the status call was under
\* way: it still answers from the cache.
C16_Witness ==
    \E t \in StatusCallers :
        /\ pc[t] = "done"
        /\ EnteredInProgress(t)
        /\ result[t].syncInProgress
        /\ result[t].costcoConnected
        /\ result[t].warehouseMealsConnected
        /\ ~result[t].hasCostcoTab
        /\ ~syncState.inProgress

\* The line items of a raw detail record: receipt.itemArray || [].
RawItems(raw) == IF "itemArray" \in DOMAIN raw THEN raw.itemArray ELSE << >>

\* rec is what may be submitted for the raw detail record raw.
AllowListed(rec, raw) ==
    /\ DOMAIN rec \subseteq TopFields
    /\ \A f \in DOMAIN raw \ TopFields : f \notin DOMAIN rec
    /\ \A f \in (DOMAIN raw \cap TopFields) \ {"itemArray"} : rec[f] = raw[f]
    /\ Len(rec.itemArray) = Len(RawItems(raw))
    /\ \A i \in 1..Len(rec.itemArray) :
          /\ DOMAIN rec.itemArray[i] \subseteq ItemFields
          /\ \A f \in DOMAIN RawItems(raw)[i] \ ItemFields : f \notin DOMAIN rec.itemArray[i]
          /\ \A f \in DOMAIN RawItems(raw)[i] \cap ItemFields :
                rec.itemArray[i][f] = RawItems(raw)[i][f]

\* C17: every record of a payload submitted to the import endpoint, on the
\* first attempt or on the retry, holds only allow-listed top-level fields
\* and, in each line item, only allow-listed item fields: a field of the raw
\* detail record or of one of its items that is outside the allow-list is
\* not in the payload, and the allow-listed ones are passed on as they came.
C17_AllowListOnly ==
    \A j \in 1..Len(Https) :
        /\ Len(Https[j].receipts) = Len(Successes)
        /\ \A k \in 1..Len(Https[j].receipts) :
              AllowListed(Https[j].receipts[k], Successes[k].details)

\* A payload for two raw records with undocumented fields at both levels.
C17_Witness ==
    /\ Len(Https) = 2
    /\ Len(Successes) = 2
    /\ "internalNotes" \in DOMAIN Successes[1].details
    /\ "taxFlag" \in DOMAIN Successes[1].details.itemArray[1]
    /\ DOMAIN Https[2].receipts[1] = {"transactionBarcode", "total", "itemArray"}
    /\ DOMAIN Https[2].receipts[1].itemArray[1] = {"itemNumber", "amount"}

\* The pending calls, by caller and correlation id.
Waiting == {[caller |-> e.caller, id |-> e.id] : e \in pending}

WaitPcs == {"list_wait", "det_wait", "st_login_wait"}

Messages(t) == SelectSeq(Log(t), LAMBDA e : e.kind = "message")

\* What the event after a message event has to say, for a sync call.
Carried(msg, after) ==
    IF "error" \in DOMAIN msg.carries
    THEN after.outcome \in {"error", "rejected"}
    ELSE IF msg.carries.result.isNull THEN after.outcome = "null"
    ELSE IF after.kind = "listed"
         THEN after.outcome = "list" /\ after.receipts = msg.carries.result.value
         ELSE after.outcome = "detail" /\ after.details = msg.carries.result.value

\* C18: a pending call of messageContentScript is settled only by a message
\* that arrives on its own connection while it is connected and whose id is
\* the id generated for the call; the step that settles it leaves every
\* other pending call pending, also those on the same connection; a call is
\* settled once, its listener being gone afterwards; and it resolves with
\* the result the message carries or rejects with the error it carries.
C18_SettledByOwnId ==
    /\ [](/\ \A e1, e2 \in pending : e1.id = e2.id => e1 = e2
          /\ \A t \in Workers :
                /\ \A p \in 1..Len(Messages(t)) :
                      Messages(t)[p].matches /\ Messages(t)[p].caller = t
                /\ pc[t] \in WaitPcs => \E w \in Waiting : w.caller = t
          /\ \A p \in 1..Len(events) :
                events[p].kind = "message" =>
                    /\ p < Len(events)
                    /\ events[p + 1].kind \in {"listed", "settle"}
                    /\ Carried(events[p], events[p + 1])
                    /\ events[p + 1].outcome = "error" =>
                          (Returned /\ Answer = Failure(events[p].carries.error)))
    /\ [][/\ \A w \in Waiting :
                w \notin Waiting' =>
                    /\ \E e \in pending :
                          e.caller = w.caller /\ e.id = w.id /\ e.port \in livePorts
                    /\ Waiting' = Waiting \ {w}
                    /\ pc[w.caller] \in WaitPcs
                    /\ pc'[w.caller] # pc[w.caller]
                    /\ Len(Messages(w.caller)') = Len(Messages(w.caller)) + 1
          /\ \A t \in Workers :
                (pc[t] \in WaitPcs /\ pc'[t] # pc[t]) =>
                    \E w \in Waiting : w.caller = t /\ w \notin Waiting'
          /\ \A t \in StatusCallers :
                (pc[t] = "st_login_wait" /\ pc'[t] # pc[t]) =>
                    LET msg == Messages(t)'[1]
                    IN  run'[t].loggedIn =
                            IF "error" \in DOMAIN msg.carries THEN FALSE
                            ELSE LoggedIn(msg.carries.result)]_vars

\* The login probe was posted while a call of the run was outstanding on the
\* same connection; that call has been settled since and the probe is still
\* pending.
C18_Witness ==
    \E e \in pending :
        /\ e.caller \in StatusCallers
        /\ e.id = 2
        /\ e.port \in livePorts
        /\ pending = {e}
        /\ \E t \in Callers : t \in Running /\ Messages(t) # << >>

\* C19: for every request {action, ...params, id} the content script sends
\* back a response that carries the id of the request, with a result field
\* when the action succeeded and an error field when it failed; an action it
\* does not know yields the unknown-action error.
C19_ResponseEnvelope ==
    \A m \in ScriptCalls :
        pc[m] = "sc_answered" =>
            /\ "id" \in DOMAIN result[m]
            /\ result[m].id = run[m].message.id
            /\ run[m].outcome.kind = "return" =>
                  ("result" \in DOMAIN result[m] /\ result[m].result = run[m].outcome.value)
            /\ run[m].outcome.kind = "throw" =>
                  ("error" \in DOMAIN result[m] /\ result[m].error = run[m].outcome.error)
            /\ run[m].message.action \notin ScriptActions =>
                  ("error" \in DOMAIN result[m] /\ result[m].error = "UnknownAction")

\* The positions at which messageContentScript waits for chrome.tabs.query.
TabPcs == {"list_tab", "det_tab", "st_login_tab"}

Sends(t) == SelectSeq(Log(t), LAMBDA e : e.kind = "send")

\* C20: messageContentScript fails with the channel-unavailable error when
\* no costco.com tab is found and with the channel-not-connected error when
\* a tab is found but no connection is registered for it; in both cases it
\* posts no message and registers no listener.  With a tab and a connection
\* it registers one listener on that connection and posts the message.  (The
\* error is the answer of a run when the listing call fails, is caught by
\* isCostcoLoggedIn in a status call, and makes a detail fetch a failed one.)
C20_ChannelErrors ==
    [][\A t \in Workers :
        (pc[t] \in TabPcs /\ pc'[t] # pc[t]) =>
            IF tabOpen /\ contentPorts # NoPort
            THEN /\ pc'[t] \in WaitPcs
                 /\ Len(Sends(t)') = Len(Sends(t)) + 1
                 /\ \E e \in pending' :
                       /\ e \notin pending
                       /\ e.caller = t
                       /\ e.port = contentPorts
                       /\ pending' = pending \cup {e}
            ELSE LET err == IF ~tabOpen THEN "ChannelUnavailable" ELSE "ChannelNotConnected"
                 IN  /\ pending' = pending
                     /\ Sends(t)' = Sends(t)
                     /\ Messages(t)' = Messages(t)
                     /\ pc'[t] \notin WaitPcs
                     /\ pc[t] = "list_tab" =>
                           (pc'[t] = "done" /\ result'[t] = Failure(err))
                     /\ pc[t] = "st_login_tab" =>
                           (Thrown(t)' = err /\ ~run'[t].loggedIn)
                     /\ pc[t] = "det_tab" =>
                           /\ Len(Settles') = Len(Settles) + 1
                           /\ Settles'[Len(Settles')].outcome = "rejected"
                           /\ Settles'[Len(Settles')].index = run[t].i]_vars

\* A run whose listing call found the tab but no connection.
C20_Witness ==
    \E t \in Callers :
        /\ pc[t] = "done"
        /\ result[t] = Failure("ChannelNotConnected")
        /\ tabOpen
        /\ contentPorts = NoPort
        /\ pending = {}
        /\ Sends(t) = << >>

----------------------------------------------------------------------------
\* The history without the deliveries: what the run itself did.
Undelivered(ev) == SelectSeq(ev, LAMBDA e : e.kind # "deliver")

Deliveries == EventsOf("deliver")

Snapshots ==
    {NullProgress, ListingProgress, ImportingProgress}
        \cup {FetchingProgress(i, n) : i \in 1..MaxReceipts, n \in 1..MaxReceipts}

\* What follows a progress message in the run, whether or not it was
\* delivered.
AfterPublish(e) ==
    IF e.progress.phase \in {"listing", "fetching"} THEN "call"
    ELSE IF e.progress.phase = "importing" THEN "import"
    ELSE "return"

\* C21: a progress message that no popup receives neither fails nor alters
\* the run.  From every reachable state broadcastProgress leaves the same
\* syncState and the same history of the run with and without a receiver;
\* syncState.progress is the progress last published, delivered or not;
\* and every progress message, delivered or not, is followed by the step the
\* run takes next (the call, the import, the return).
C21_DeliveryFailureSwallowed ==
    /\ \A progress \in Snapshots :
          LET with == Broadcast(Here, progress, TRUE)
              without == Broadcast(Here, progress, FALSE)
          IN  /\ with.ss = without.ss
              /\ Undelivered(with.ev) = Undelivered(without.ev)
              /\ without.ss = [syncState EXCEPT !.progress = progress]
    /\ Publishes # << >> =>
          syncState.progress = Publishes[Len(Publishes)].progress
    /\ LET U == Undelivered(events)
       IN  \A p \in 1..Len(U) :
              (U[p].kind = "publish" /\ p < Len(U)) =>
                  U[p + 1].kind = AfterPublish(U[p])

\* A run that succeeded with some of its progress messages delivered and
\* some not.
C21_Witness ==
    /\ Returned
    /\ Answer.kind = "result"
    /\ Deliveries # << >>
    /\ Len(Deliveries) < Len(Publishes)
    /\ Publishes[1].progress = ListingProgress
    /\ \A k \in 1..Len(Deliveries) : Deliveries[k].progress # ListingProgress

----------------------------------------------------------------------------
\* C22: the registry entry of a tab is its most recently registered
\* connection for as long as that connection is live: a connect makes the
\* new port the entry, and the disconnect of a port that is not the entry
\* (an older one, replaced by a newer one that is still live) leaves the
\* entry as it is.
C22_LastRegisteredWins ==
    [][\A p \in RegistryPorts :
        /\ (p \notin livePorts /\ p \in livePorts') => contentPorts' = p
        /\ (/\ p \in livePorts
            /\ p \notin livePorts'
            /\ contentPorts # p
            /\ contentPorts \in livePorts') => contentPorts' = contentPorts]_vars

----------------------------------------------------------------------------
ResponseEvents == EventsOf("response")

\* The response authenticatedFetch returned to the import call.
LastResponse == ResponseEvents[Len(ResponseEvents)].response

\* The import call of the run ended with a non-2xx response.
ImportRefused ==
    /\ Returned
    /\ ResponseEvents # << >>
    /\ events[Len(events) - 2].kind = "response"
    /\ ~Ok(LastResponse)

\* A 422 whose body is JSON that carries a message.
IsValidationResponse(resp) ==
    /\ resp.status = 422
    /\ resp.ctJson
    /\ resp.parses
    /\ "message" \in DOMAIN resp.body

\* C23: a non-2xx import response is a validation error only when its
\* status is 422 and its body is JSON that carries a message, and the error
\* then names that message; every other non-2xx response (no JSON, JSON
\* that does not parse, JSON without a message, JSON with a message under
\* another status) is a server error that carries the response status.
C23_ErrorClassification ==
    ImportRefused =>
        IF IsValidationResponse(LastResponse)
        THEN /\ Answer.error = "ValidationFailed"
             /\ Answer.message = ValidationMessage(LastResponse.body.message)
        ELSE /\ Answer.error = "ServerError"
             /\ Answer.message = ServerErrorMessage(LastResponse.status)

----------------------------------------------------------------------------
\* The run returned the result of the import.
Imported == Returned /\ Answer.kind = "result"

\* C24: in the result of a successful run errors is a count: the length of
\* the list when the import response carries errors as a list, the number
\* when it carries a number, 0 when it carries none; duplicates and skipped
\* are the response's, or 0; imported is the response's, or the number of
\* records submitted.
C24_ErrorsIsACount ==
    Imported =>
        LET body == LastResponse.body
            submitted == Imports[1].receipts
        IN  /\ Answer.errors \in Nat
            /\ "errors" \notin DOMAIN body => Answer.errors = 0
            /\ "errors" \in DOMAIN body =>
                  IF body.errors.isArray
                  THEN Answer.errors = Len(body.errors.items)
                  ELSE Answer.errors = body.errors.count
            /\ Answer.duplicates =
                  (IF "duplicates" \in DOMAIN body THEN body.duplicates ELSE 0)
            /\ Answer.skipped =
                  (IF "skipped" \in DOMAIN body THEN body.skipped ELSE 0)
            /\ Answer.imported =
                  (IF "imported" \in DOMAIN body THEN body.imported
                   ELSE Len(submitted))

\* A run whose import response listed three errors and imported nothing.
C24_Witness ==
    /\ Imported
    /\ "errors" \in DOMAIN LastResponse.body
    /\ LastResponse.body.errors.isArray
    /\ Len(LastResponse.body.errors.items) = 3
    /\ Answer.errors = 3
    /\ Answer.imported = 0
    /\ Len(Imports[1].receipts) = 2

----------------------------------------------------------------------------
Phase(k) == Publishes[k].progress.phase

ImportingPublished == \E k \in 1..Len(Publishes) : Phase(k) = "importing"

\* The phases a progress message may be followed by.
PhasesAfter(phase) ==
    IF phase = "listing" THEN {"fetching", "null"}
    ELSE IF phase = "fetching" THEN {"fetching", "importing", "null"}
    ELSE IF phase = "importing" THEN {"null"}
    ELSE {}

\* C25: the progress messages of a run are one listing snapshot, then the
\* fetching snapshots, then at most one importing snapshot, then null, which
\* ends the run; the importing snapshot is published only when all N detail
\* fetches have settled, and never after an empty listing or when every
\* fetch failed.
C25_ProgressSequence ==
    /\ Publishes # << >> => Publishes[1].progress = ListingProgress
    /\ \A k \in 1..Len(Publishes) :
          /\ k > 1 => Phase(k) # "listing"
          /\ k < Len(Publishes) => Phase(k + 1) \in PhasesAfter(Phase(k))
          /\ Phase(k) = "fetching" => N > 0
    /\ Returned <=> (Publishes # << >> /\ Phase(Len(Publishes)) = "null")
    /\ ImportingPublished =>
          /\ N > 0
          /\ Len(Settles) = N
          /\ Successes # << >>
          /\ Len(Imports) = 1

\* A run over three records that published listing, three fetching
\* snapshots, importing and null.
C25_Witness ==
    /\ Returned
    /\ N = 3
    /\ Len(Publishes) = 6
    /\ Phase(5) = "importing"
    /\ Len(Failures) = 1

----------------------------------------------------------------------------
\* C26: at every suspension point (every state another task may run in)
\* syncState.progress is null when syncState.inProgress is false, and is a
\* snapshot of the listing, fetching or importing phase when it is true.
C26_ProgressTracksLock ==
    /\ ~syncState.inProgress => syncState.progress = NullProgress
    /\ syncState.inProgress =>
          /\ syncState.progress \in Snapshots \ {NullProgress}
          /\ syncState.progress.phase = "fetching" =>
                syncState.progress.current <= syncState.progress.total

\* Another call is turned away at the guard while the run is importing.
C26_Witness ==
    /\ syncState.inProgress
    /\ syncState.progress = ImportingProgress
    /\ \E t \in Callers : Rejected(t)
    /\ \E t \in Callers : pc[t] = "imp_backoff"

----------------------------------------------------------------------------
\* The status call of s answers that a sync is in progress.
AnswersInProgress(s) ==
    /\ pc[s] = "done"
    /\ result[s].kind = "status"
    /\ result[s].syncInProgress

\* C27: however getStatus calls interleave with a run, a getStatus answer
\* that reports syncInProgress = true carries a snapshot of the sync that is
\* running: syncProgress is not null, its phase is listing, fetching or
\* importing, and a sync is in progress when the answer is given.
C27_CachedSnapshot ==
    \A s \in StatusCallers :
        AnswersInProgress(s) =>
            /\ result[s].syncProgress # NullProgress
            /\ result[s].syncProgress.phase \in {"listing", "fetching", "importing"}
            /\ syncState.inProgress

----------------------------------------------------------------------------
\* The positions at which a status call has a probe in flight: the login
\* message posted to the content script, or the GET of the user endpoint
\* (first attempt or retry).
ProbePcs == {"st_login_wait", "st_fetch1", "st_fetch2"}

\* C28: however getStatus and startSync calls interleave, no probe of a
\* status call (the login probe, the validation GET of the user endpoint) is
\* sent or in flight at a moment at which syncState.inProgress is true.
C28_NoProbeDuringSync ==
    syncState.inProgress => \A s \in StatusCallers : pc[s] \notin ProbePcs

----------------------------------------------------------------------------
\* The call of t receives its second 401 and removes the stored token.
RemovesToken(t) ==
    /\ pc[t] \in {"imp_fetch2", "st_fetch2"}
    /\ pc'[t] \in {"imp_remove", "st_remove"}
    /\ token # NoToken
    /\ token' = NoToken

\* C29: authenticatedFetch removes the stored token only when the token
\* stored at that moment is the one it sent with both attempts; a token
\* stored by a connect that completed during the backoff or the retry
\* survives the call's second 401.
C29_ClearsOnlyOwnCredential ==
    [][\A t \in Workers : RemovesToken(t) => token = run[t].bearer]_vars

----------------------------------------------------------------------------
\* The positions of a run before its import call.
FetchPcs == {"list_tab", "list_wait", "det_tab", "det_wait", "delay"}

\* The run failed with the not-authenticated error.
FailedUnauthenticated == Returned /\ Answer = Failure("NotAuthenticated")

\* C30: syncReceipts does not read the token before the import.  Up to the
\* import call a run holds no token and has sent no request to the server,
\* whatever the storage holds; a run that finds no token at its import call
\* (none was stored, or it was removed during the run) has done the listing
\* and all N detail fetches, has published the importing phase and made the
\* import call, fails with the not-authenticated error without a request to
\* the server, and runs the cleanup.
C30_TokenReadAtImportOnly ==
    /\ [](\A t \in Callers :
            pc[t] \in FetchPcs \cup {"imp_storage"} =>
                /\ run[t].bearer = NoToken
                /\ Https = << >>)
    /\ [](FailedUnauthenticated =>
            /\ N > 0
            /\ Len(DetailCalls) = N
            /\ Len(Settles) = N
            /\ ImportingPublished
            /\ Len(Imports) = 1
            /\ Https = << >>
            /\ syncState = Idle
            /\ Phase(Len(Publishes)) = "null")
    /\ [][\A t \in Callers :
            (pc[t] = "imp_storage" /\ pc'[t] # "imp_storage") =>
                IF token = NoToken
                THEN /\ pc'[t] = "done"
                     /\ result'[t] = Failure("NotAuthenticated")
                     /\ Https' = << >>
                ELSE /\ pc'[t] = "imp_fetch1"
                     /\ Len(Https') = 1
                     /\ Https'[1].bearer = token]_vars

\* A run over three records, one of them failed, that found no token at its
\* import call.
C30_Witness ==
    /\ FailedUnauthenticated
    /\ token = NoToken
    /\ N = 3
    /\ Len(Successes) = 2
    /\ Len(Imports[1].receipts) = 2

----------------------------------------------------------------------------
\* The popup has shown a status: updateUI has run.
PopupShown == Observed /\ "status" \in DOMAIN run["popup"]

\* The status the popup showed last, and the sync button since.
ShownStatus == run["popup"].status

SyncEnabled == ~result["popup"].syncDisabled

Reports(field) == OrElse(ShownStatus, field, FALSE)

====
